---- MODULE Spec2Model ----
(***************************************************************************)
(* Model of the MCP endpoint of the Milvus proxy                           *)
(* (internal/distributed/proxy/httpserver/mcp): the tool catalog, the      *)
(* privilege filter checkToolPermission and the JSON-RPC dispatcher        *)
(* handleMcpRequest.                                                       *)
(*                                                                         *)
(* Six specifications share the definitions below:                         *)
(*   SpecPerm  checkToolPermission and filterToolsByPermission run to      *)
(*             completion on drawn inputs,                                 *)
(*   SpecAuth  concurrent checkToolPermission calls, one cache access per  *)
(*             step, interleaved with other writers of the cache,          *)
(*   Spec      the dispatcher: a request arrives, the whole handler runs,  *)
(*             the response is taken,                                      *)
(*   SpecReg   register and Get applied to drawn tools and names,          *)
(*   SpecSeq   the construction of the catalog, one register call per      *)
(*             step, then a sequence of requests,                          *)
(*   SpecSchema  a schema built by calls of its builder methods.           *)
(***************************************************************************)
EXTENDS Integers, Sequences, FiniteSets, TLC

VARIABLES
    tools,        \* ToolsCatalog.tools: name -> Tool
    authEnabled,  \* proxy.Params.CommonCfg.AuthorizationEnabled
    priCache,     \* the privilege cache: [pri: key -> isPermit, ver: version]
    call,         \* SpecPerm: the last checkToolPermission call and its outcome
    wk,           \* SpecAuth: worker -> frame of its checkToolPermission call
    granted,      \* SpecAuth: the cache keys the authority has written as permitted
    conn,         \* Spec: the connection: request in flight, gin context, response
    srv,          \* SpecReg, SpecSeq: the register calls made, the last Get, the
                  \* requests served and the result of the last ping
    sch           \* SpecSchema: the schema under construction

vars == <<tools, authEnabled, priCache, call, wk, granted, conn, srv, sch>>

----------------------------------------------------------------------------
(* Bounds of the model *)

MaxVer == 1        \* CleanPrivilegeCache runs at most this many times
MaxRegs == 3       \* SpecReg: register is called at most this many times
MaxRequests == 3   \* SpecSeq: the server handles at most this many requests
MaxRequired == 3   \* SpecSchema: the required list grows to at most this length

\* the concurrent authorization checks of SpecAuth
Workers == {"w1", "w2"}

----------------------------------------------------------------------------
(* Loosely typed JSON values: map[string]interface{} entries.              *)
(* t is the dynamic type; "absent" is the value of a parameter that the    *)
(* request does not carry.                                                 *)

Absent == [t |-> "absent", s |-> "", n |-> 0]
Null == [t |-> "null", s |-> "", n |-> 0]
Str(x) == [t |-> "string", s |-> x, n |-> 0]
Num(k) == [t |-> "number", s |-> "", n |-> k]
Arr(k) == [t |-> "array", s |-> "", n |-> k]

\* the JSON number 2^53 + k as it stands in a request body; 2^53 is beyond
\* the integers of the checker, so the base is kept in s
Big(k) == [t |-> "number", s |-> "2^53+", n |-> k]

\* encoding/json decodes a number into an interface{} as a float64
\* (round half to even): an integer below 2^53 is kept, in [2^53, 2^54) an
\* odd one becomes the neighbour whose mantissa is even
ParseFloat(v) ==
    IF v.t = "number" /\ v.s = "2^53+" /\ v.n % 2 = 1
    THEN [v EXCEPT !.n = IF (v.n - 1) % 4 = 0 THEN v.n - 1 ELSE v.n + 1]
    ELSE v

ArgKeys == {"database", "collection_name", "dimension", "metric_type", "vectors"}

\* ToolArgs: the map holds the keys the caller sent
EmptyArgs == [k \in {} |-> Absent]

\* the argument map with the given values; an Absent one is a key left out
Args(db, coll, dim, vec) ==
    LET given == [k \in ArgKeys |->
                    CASE k = "database" -> db
                      [] k = "collection_name" -> coll
                      [] k = "dimension" -> dim
                      [] k = "vectors" -> vec
                      [] OTHER -> Absent]
    IN  [k \in {x \in ArgKeys : given[x] # Absent} |-> given[k]]

\* ToolArgs.GetString: the value when it is a non-empty string, else the default
GetString(args, key, defaultValue) ==
    IF key \in DOMAIN args /\ args[key].t = "string" /\ args[key].s # ""
    THEN args[key].s
    ELSE defaultValue

\* mutant: a value that is not a number counts as 1
GetInt_NonNumericIsOne(args, key, defaultValue) ==
    IF key \in DOMAIN args /\ args[key].t = "number" THEN args[key].n ELSE 1

\* ToolArgs.GetInt: float64 / int / int64 values, else the default
GetInt(args, key, defaultValue) ==
    IF key \in DOMAIN args /\ args[key].t = "number"
    THEN args[key].n
    ELSE defaultValue

\* ToolArgs.Require: the first key of keys that is not in the map, "" when none
RECURSIVE Require(_, _)
Require(args, keys) ==
    IF keys = <<>> THEN ""
    ELSE IF Head(keys) \notin DOMAIN args
         THEN Head(keys)
         ELSE Require(args, Tail(keys))

\* GetFloatSlice: the number of float elements of an array value, 0 otherwise
GetFloatSlice(args, key) ==
    IF key \in DOMAIN args /\ args[key].t = "array" THEN args[key].n ELSE 0

----------------------------------------------------------------------------
(* Constants of the package and of pkg/util *)

McpProtocolVersion == "2025-06-18"
ErrorCodeParseError == -32700
ErrorCodeMethodNotFound == -32601
ErrorCodeInvalidParams == -32602

RolePublic == "public"
DefaultDBName == "default"

ObjectTypeDatabase == "Database"
ObjectTypeCollection == "Collection"

----------------------------------------------------------------------------
(* Schemas and the catalog *)

\* NewToolSchema
NewToolSchema == [Type |-> "object", Properties |-> {}, Required |-> <<>>]

\* ToolSchema.AddParameter
AddParameter(s, name) == [s EXCEPT !.Properties = @ \cup {name}]

\* ToolSchema.AddRequired
AddRequired(s, params) == [s EXCEPT !.Required = @ \o params]

simpleCollectionSchema ==
    [Type |-> "object", Properties |-> {"database", "collection_name"},
     Required |-> <<"collection_name">>]

schemaForListCollections ==
    [Type |-> "object", Properties |-> {"database"}, Required |-> <<>>]

schemaForCreateCollection ==
    AddRequired(
        AddParameter(AddParameter(AddParameter(AddParameter(NewToolSchema,
            "database"), "collection_name"), "dimension"), "metric_type"),
        <<"collection_name", "dimension">>)

schemaForDescribeCollection ==
    [Type |-> "object", Properties |-> {"database", "collection_name"},
     Required |-> <<"collection_name">>]

outputSchemaForListCollections ==
    AddRequired(AddParameter(AddParameter(NewToolSchema, "collections"), "database"),
                <<"collections", "database">>)

outputSchemaForCreateCollection ==
    AddRequired(
        AddParameter(AddParameter(AddParameter(AddParameter(AddParameter(NewToolSchema,
            "collection_name"), "database"), "dimension"), "metric_type"), "status"),
        <<"collection_name", "database", "dimension", "metric_type", "status">>)

\* the schema objects built in registerAll, by the pointer the tool holds:
\* every call of a schema method returns a new object
SchemaHeap(ptr) ==
    CASE ptr = "in:collection.list" -> schemaForListCollections
      [] ptr = "out:collection.list" -> outputSchemaForListCollections
      [] ptr = "in:collection.create" -> schemaForCreateCollection
      [] ptr = "out:collection.create" -> outputSchemaForCreateCollection
      [] ptr = "in:collection.describe" -> schemaForDescribeCollection
      [] OTHER -> simpleCollectionSchema

\* a nil *ToolSchema
NoSchema == "nil"

\* PrivilegeRequirement
Priv(objectType, objectPrivilege, objectNameField) ==
    [ObjectType |-> objectType, ObjectPrivilege |-> objectPrivilege,
     ObjectNameField |-> objectNameField]

\* Tool
Tool(name, execute, input, output, privileges) ==
    [Name |-> name, Execute |-> execute, InputSchema |-> input,
     OutputSchema |-> output, RequiredPrivileges |-> privileges]

\* mutant: a name that is taken keeps its first definition
register_KeepsFirst(tc, tool) ==
    [n \in DOMAIN tc \cup {tool.Name} |-> IF n \in DOMAIN tc THEN tc[n] ELSE tool]

\* ToolsCatalog.register: insert or overwrite by name
register(tc, tool) ==
    [n \in DOMAIN tc \cup {tool.Name} |-> IF n = tool.Name THEN tool ELSE tc[n]]

EmptyCatalog == [n \in {} |-> Tool("", "", NoSchema, NoSchema, <<>>)]

RECURSIVE registerSeq(_, _)
registerSeq(tc, ts) ==
    IF ts = <<>> THEN tc ELSE registerSeq(register(tc, Head(ts)), Tail(ts))

\* the ten tools registerAll registers, in the order of its register calls
CatalogTools ==
    <<
        Tool("collection.list", "listCollections", "in:collection.list",
             "out:collection.list",
             <<Priv(ObjectTypeDatabase, "ShowCollections", "database")>>),
        Tool("collection.create", "createCollection", "in:collection.create",
             "out:collection.create",
             <<Priv(ObjectTypeDatabase, "CreateCollection", "database")>>),
        Tool("collection.describe", "describeCollection", "in:collection.describe",
             NoSchema,
             <<Priv(ObjectTypeCollection, "DescribeCollection", "collection_name")>>),
        Tool("collection.drop", "dropCollection", "in:collection.drop", NoSchema,
             <<Priv(ObjectTypeCollection, "DropCollection", "collection_name")>>),
        Tool("data.insert", "insertData", "in:data.insert", NoSchema,
             <<Priv(ObjectTypeCollection, "Insert", "collection_name")>>),
        Tool("data.search", "searchVectors", "in:data.search", NoSchema,
             <<Priv(ObjectTypeCollection, "Search", "collection_name")>>),
        Tool("data.query", "queryData", "in:data.query", NoSchema,
             <<Priv(ObjectTypeCollection, "Query", "collection_name")>>),
        Tool("data.delete", "deleteData", "in:data.delete", NoSchema,
             <<Priv(ObjectTypeCollection, "Delete", "collection_name")>>),
        Tool("index.create", "createIndex", "in:index.create", NoSchema,
             <<Priv(ObjectTypeCollection, "CreateIndex", "collection_name")>>),
        Tool("index.describe", "describeIndex", "in:index.describe", NoSchema,
             <<Priv(ObjectTypeCollection, "DescribeIndex", "collection_name")>>)
    >>

\* ToolsCatalog.registerAll: the register calls, on the empty map
registerAll == registerSeq(EmptyCatalog, CatalogTools)

\* NewToolsCatalog: the map is filled before the catalog is returned
NewToolsCatalog == registerAll

\* mutant: the catalog is handed out after the first register call
registerAllReturned_Early(log) == Len(log) >= 1

\* registerAll has returned (line 46): every register call has been made
registerAllReturned(log) == Len(log) = Len(CatalogTools)

\* ToolsCatalog.Get
Get(tc, name) ==
    IF name \in DOMAIN tc
    THEN [tool |-> tc[name], exists |-> TRUE]
    ELSE [tool |-> Tool("", "", NoSchema, NoSchema, <<>>), exists |-> FALSE]

----------------------------------------------------------------------------
(* The privilege authority: role lookup and the privilege cache *)

\* the role bindings of the principals
UserRoles ==
    [u \in {"alice", "bob", "anonymous"} |->
        CASE u = "alice" -> <<"admin">>
          [] u = "bob" -> <<"reader", "admin">>
          [] OTHER -> <<>>]

\* proxy.GetRole: the roles bound to the user, or an error
GetRole(username, roleErr) ==
    IF roleErr THEN [roles |-> <<>>, err |-> TRUE]
    ELSE [roles |-> IF username \in DOMAIN UserRoles THEN UserRoles[username] ELSE <<>>,
          err |-> FALSE]

\* funcutil.PolicyForResource: the resource of an object in a database
PolicyForResource(dbName, objectType, objectName) ==
    <<objectType, dbName, objectName>>

CacheKey(roleName, objectResource, objectPrivilege) ==
    <<roleName, objectResource, objectPrivilege>>

EmptyPri == [k \in {} |-> FALSE]

\* proxy.GetPrivilegeCache: (isPermit, cached, version); on a miss the value of
\* isPermit is whatever the authority returns (junk)
GetPrivilegeCache(c, roleName, objectResource, objectPrivilege, junk) ==
    LET key == CacheKey(roleName, objectResource, objectPrivilege) IN
    IF key \in DOMAIN c.pri
    THEN [isPermit |-> c.pri[key], cached |-> TRUE, version |-> c.ver]
    ELSE [isPermit |-> junk, cached |-> FALSE, version |-> c.ver]

\* proxy.SetPrivilegeCache: write the entry, for the version it was read at
SetPrivilegeCache(c, roleName, objectResource, objectPrivilege, isPermit, version) ==
    LET key == CacheKey(roleName, objectResource, objectPrivilege) IN
    IF version = c.ver
    THEN [c EXCEPT !.pri = [k \in DOMAIN c.pri \cup {key} |->
                               IF k = key THEN isPermit ELSE c.pri[k]]]
    ELSE c

\* proxy.CleanPrivilegeCache: drop every entry and start a new version
CleanPrivilegeCache(c) == [pri |-> EmptyPri, ver |-> c.ver + 1]

----------------------------------------------------------------------------
(* checkToolPermission, one shared access per step.                        *)
(* A frame holds the locals of one call; pc is the next shared access:     *)
(*   "enter"  the reads of the configuration and of the role bindings,     *)
(*   "get"    proxy.GetPrivilegeCache for requirement i and role j,        *)
(*   "set"    proxy.SetPrivilegeCache after a miss,                        *)
(*   "return" the call has returned err.                                   *)

Nil == [nil |-> TRUE, msg |-> <<>>]
Err(msg) == [nil |-> FALSE, msg |-> msg]

\* fmt.Errorf("permission denied: %s privilege required on %s:%s", ...)
ErrPermissionDenied(objectPrivilege, objectType, objectName) ==
    Err(<<"permission denied: ", objectPrivilege, " privilege required on ",
          objectType, ":", objectName>>)

\* the error of proxy.GetRole
ErrGetRole == Err(<<"role lookup failed">>)

NewFrame(username, tool, args, roleErr, junk) ==
    [pc |-> "enter", username |-> username, tool |-> tool.Name,
     reqs |-> tool.RequiredPrivileges, args |-> args,
     roleErr |-> roleErr, junk |-> junk,
     roleNames |-> <<>>, dbName |-> "", i |-> 1, j |-> 1, version |-> 0,
     err |-> Nil, trace |-> <<>>]

IdleFrame ==
    [pc |-> "idle", username |-> "", tool |-> "", reqs |-> <<>>, args |-> EmptyArgs,
     roleErr |-> FALSE, junk |-> FALSE,
     roleNames |-> <<>>, dbName |-> "", i |-> 1, j |-> 1, version |-> 0,
     err |-> Nil, trace |-> <<>>]

\* mutant: a Database requirement keeps the wildcard
ObjectNameOf_KeepsWildcard(r, args, dbName) == GetString(args, r.ObjectNameField, "*")

\* objectName of requirement r: the named argument, "*" by default, and the
\* database name for a Database requirement that is still the wildcard
ObjectNameOf(r, args, dbName) ==
    LET objectName == GetString(args, r.ObjectNameField, "*") IN
    IF r.ObjectType = "Database" /\ objectName = "*" THEN dbName ELSE objectName

\* mutant: the resource is looked up in the default database
ObjectResourceOf_DefaultDatabase(r, args, dbName) ==
    PolicyForResource(DefaultDBName, r.ObjectType, ObjectNameOf(r, args, dbName))

ObjectResourceOf(r, args, dbName) ==
    PolicyForResource(dbName, r.ObjectType, ObjectNameOf(r, args, dbName))

Access(op, roleName, objectResource, objectPrivilege, cached, isPermit, version) ==
    [op |-> op, role |-> roleName, res |-> objectResource, priv |-> objectPrivilege,
     cached |-> cached, isPermit |-> isPermit, version |-> version]

\* the end of the role loop body: the next role, or the denial of requirement i
NextRole(k) ==
    IF k.j < Len(k.roleNames)
    THEN [k EXCEPT !.pc = "get", !.j = @ + 1]
    ELSE [k EXCEPT !.pc = "return",
                   !.err = ErrPermissionDenied(k.reqs[k.i].ObjectPrivilege,
                                               k.reqs[k.i].ObjectType,
                                               ObjectNameOf(k.reqs[k.i], k.args, k.dbName))]

\* mutant: the first satisfied requirement ends the check with success
NextRequirement_FirstWins(k) == [k EXCEPT !.pc = "return", !.err = Nil]

\* requirement i is satisfied (break): the next requirement, or return nil
NextRequirement(k) ==
    IF k.i < Len(k.reqs)
    THEN [k EXCEPT !.pc = "get", !.i = @ + 1, !.j = 1]
    ELSE [k EXCEPT !.pc = "return", !.err = Nil]

\* mutant: the authorization switch is not consulted
StepEnter_IgnoresSwitch(k, auth) ==
    IF Len(k.reqs) = 0 THEN [k EXCEPT !.pc = "return", !.err = Nil]
    ELSE LET r == GetRole(k.username, k.roleErr) IN
         IF r.err THEN [k EXCEPT !.pc = "return", !.err = ErrGetRole]
         ELSE [k EXCEPT !.pc = "get",
                        !.roleNames = Append(r.roles, RolePublic),
                        !.dbName = GetString(k.args, "database", DefaultDBName),
                        !.i = 1, !.j = 1]

\* mutant: a failed role lookup leaves the public role to be checked
StepEnter_PublicOnRoleError(k, auth) ==
    IF ~auth THEN [k EXCEPT !.pc = "return", !.err = Nil]
    ELSE IF Len(k.reqs) = 0 THEN [k EXCEPT !.pc = "return", !.err = Nil]
    ELSE [k EXCEPT !.pc = "get",
                   !.roleNames = Append(GetRole(k.username, k.roleErr).roles, RolePublic),
                   !.dbName = GetString(k.args, "database", DefaultDBName),
                   !.i = 1, !.j = 1]

\* lines 422-436: configuration, requirement count, roles, database name
StepEnter(k, auth) ==
    IF ~auth THEN [k EXCEPT !.pc = "return", !.err = Nil]
    ELSE IF Len(k.reqs) = 0 THEN [k EXCEPT !.pc = "return", !.err = Nil]
    ELSE LET r == GetRole(k.username, k.roleErr) IN
         IF r.err THEN [k EXCEPT !.pc = "return", !.err = ErrGetRole]
         ELSE [k EXCEPT !.pc = "get",
                        !.roleNames = Append(r.roles, RolePublic),
                        !.dbName = GetString(k.args, "database", DefaultDBName),
                        !.i = 1, !.j = 1]

\* mutant: the isPermit value of a miss is trusted
Grants_TrustsMiss(got) == got.isPermit

\* whether a lookup result satisfies the requirement (line 449)
Grants(got) == got.cached /\ got.isPermit

\* lines 448-454: the lookup and what the loop does with it
StepGet(k, c) ==
    LET r == k.reqs[k.i]
        res == ObjectResourceOf(r, k.args, k.dbName)
        role == k.roleNames[k.j]
        got == GetPrivilegeCache(c, role, res, r.ObjectPrivilege, k.junk)
        k1 == [k EXCEPT !.version = got.version,
                        !.trace = Append(@, Access("get", role, res, r.ObjectPrivilege,
                                                   got.cached, got.isPermit, got.version))]
    IN  IF Grants(got) THEN NextRequirement(k1)
        ELSE IF ~got.cached THEN [k1 EXCEPT !.pc = "set"]
        ELSE NextRole(k1)

\* mutant: the entry written after a miss is affirmative
Placeholder_Permit == TRUE

\* the value checkToolPermission writes after a miss (line 455)
Placeholder == FALSE

\* line 455: the placeholder written after a miss
StepSet(k, c) ==
    LET r == k.reqs[k.i]
        res == ObjectResourceOf(r, k.args, k.dbName)
        role == k.roleNames[k.j]
    IN  [k |-> NextRole([k EXCEPT !.trace =
                    Append(@, Access("set", role, res, r.ObjectPrivilege,
                                     FALSE, Placeholder, k.version))]),
         c |-> SetPrivilegeCache(c, role, res, r.ObjectPrivilege, Placeholder, k.version)]

\* one step of a call: the frame and the cache after it
checkStep(k, c, auth) ==
    CASE k.pc = "enter" -> [k |-> StepEnter(k, auth), c |-> c]
      [] k.pc = "get" -> [k |-> StepGet(k, c), c |-> c]
      [] k.pc = "set" -> StepSet(k, c)
      [] OTHER -> [k |-> k, c |-> c]

\* checkToolPermission run to its return with no other access in between
RECURSIVE runCheck(_, _, _)
runCheck(k, c, auth) ==
    IF k.pc = "return" THEN [k |-> k, c |-> c]
    ELSE LET s == checkStep(k, c, auth) IN runCheck(s.k, s.c, auth)

checkToolPermission(username, tool, args, c, auth, roleErr, junk) ==
    runCheck(NewFrame(username, tool, args, roleErr, junk), c, auth)

----------------------------------------------------------------------------
(* The tool implementations (Execute callbacks).                           *)
(* env holds what the collaborators answer during the call:                *)
(*   op1, op2    the outcome of the first and second delegated operation:  *)
(*               "ok", "error" (transport error) or "status" (a status     *)
(*               whose code is not the zero/OK code),                      *)
(*   nilResults  whether a Search answer with a non-OK status carries no   *)
(*               Results,                                                  *)
(*   roleErr     whether proxy.GetRole fails,                              *)
(*   junk        the isPermit value of a cache miss.                       *)
(* A callback returns its result, its error, the delegated operations it   *)
(* invoked and whether it panicked.                                        *)

OpOutcomes == {"ok", "error", "status"}

\* the collections the data plane reports for ShowCollections
CollectionNames == <<"c1">>

\* a delegated operation, the request it was given and its outcome
ProxyCall(op, dbName, collectionName, outcome) ==
    [op |-> op, db |-> dbName, coll |-> collectionName, outcome |-> outcome]

NilData == [kind |-> "nil"]

NilToolResult ==
    [nil |-> TRUE, Content |-> <<>>, IsError |-> FALSE, StructuredContent |-> NilData]

McpContent(text) == [Type |-> "text", Text |-> text]

\* NewToolResult
NewToolResult(text) ==
    [nil |-> FALSE, Content |-> <<McpContent(text)>>, IsError |-> FALSE,
     StructuredContent |-> NilData]

\* NewToolResultWithData
NewToolResultWithData(text, data) ==
    [nil |-> FALSE, Content |-> <<McpContent(text)>>, IsError |-> FALSE,
     StructuredContent |-> data]

Returned(result, ops) == [result |-> result, err |-> Nil, ops |-> ops, panic |-> FALSE]
Failed(err, ops) == [result |-> NilToolResult, err |-> err, ops |-> ops, panic |-> FALSE]
Panicked(ops) == [result |-> NilToolResult, err |-> Nil, ops |-> ops, panic |-> TRUE]

\* fmt.Errorf("required parameter '%s' is missing", key)
ErrRequired(key) == Err(<<"required parameter '", key, "' is missing">>)

\* the error of a delegated operation: a transport error or a non-OK status
ErrOp(op, outcome) == Err(<<op, ": ", outcome>>)

listCollections(args, env) ==
    LET dbName == GetString(args, "database", "default")
        ops == <<ProxyCall("ShowCollections", dbName, "", env.op1)>>
    IN  IF env.op1 = "error" THEN Failed(ErrOp("ShowCollections", "error"), ops)
        ELSE IF env.op1 # "ok" THEN Failed(ErrOp("ShowCollections", "status"), ops)
        ELSE Returned(NewToolResultWithData(
                 <<"Found ", ToString(Len(CollectionNames)), " collections in database '", dbName, "'">>,
                 [kind |-> "list", collections |-> CollectionNames, database |-> dbName]),
                 ops)

\* the answer of CreateIndex (line 297) is dropped: env.op2 decides nothing
createCollection(args, env) ==
    LET missing == Require(args, <<"collection_name", "dimension">>)
        dbName == GetString(args, "database", DefaultDBName)
        collectionName == GetString(args, "collection_name", "")
        dimension == GetInt(args, "dimension", 0)
        metricType == GetString(args, "metric_type", "L2")
        create == ProxyCall("CreateCollection", dbName, collectionName, env.op1)
        index == ProxyCall("CreateIndex", dbName, collectionName, env.op2)
    IN  IF missing # "" THEN Failed(ErrRequired(missing), <<>>)
        ELSE IF dimension <= 0
             THEN Failed(Err(<<"dimension must be positive, got ", ToString(dimension)>>), <<>>)
        ELSE IF env.op1 = "error" THEN Failed(ErrOp("CreateCollection", "error"), <<create>>)
        ELSE IF env.op1 # "ok" THEN Failed(ErrOp("CreateCollection", "status"), <<create>>)
        ELSE Returned(NewToolResultWithData(
                 <<"Collection '", collectionName, "' created successfully with dimension ",
                   ToString(dimension)>>,
                 [kind |-> "create", collection_name |-> collectionName,
                  database |-> dbName, dimension |-> dimension,
                  metric_type |-> metricType, status |-> "created"]),
                 <<create, index>>)

describeCollection(args, env) ==
    LET missing == Require(args, <<"collection_name">>)
        dbName == GetString(args, "database", DefaultDBName)
        collectionName == GetString(args, "collection_name", "")
        ops == <<ProxyCall("DescribeCollection", dbName, collectionName, env.op1)>>
    IN  IF missing # "" THEN Failed(ErrRequired(missing), <<>>)
        ELSE IF env.op1 = "error" THEN Failed(ErrOp("DescribeCollection", "error"), ops)
        ELSE IF env.op1 # "ok" THEN Failed(ErrOp("DescribeCollection", "status"), ops)
        ELSE Returned(NewToolResultWithData(
                 <<"Collection '", collectionName, "' has ", "2", " fields">>,
                 [kind |-> "describe", collection_name |-> collectionName,
                  database |-> dbName]),
                 ops)

dropCollection(args, env) ==
    LET missing == Require(args, <<"collection_name">>)
        dbName == GetString(args, "database", "default")
        collectionName == GetString(args, "collection_name", "")
        ops == <<ProxyCall("DropCollection", dbName, collectionName, env.op1)>>
    IN  IF missing # "" THEN Failed(ErrRequired(missing), <<>>)
        ELSE IF env.op1 = "error" THEN Failed(ErrOp("DropCollection", "error"), ops)
        ELSE IF env.op1 # "ok" THEN Failed(ErrOp("DropCollection", "status"), ops)
        ELSE Returned(NewToolResultWithData(
                 <<"Collection '", collectionName, "' dropped successfully">>,
                 [kind |-> "drop", collection_name |-> collectionName,
                  database |-> dbName, status |-> "dropped"]),
                 ops)

\* searchVectors reads resp.Results without looking at the status: an answer
\* without Results is a nil dereference
searchVectors(args, env) ==
    LET missing == Require(args, <<"collection_name", "vectors">>)
        dbName == GetString(args, "database", "default")
        collectionName == GetString(args, "collection_name", "")
        vectors == GetFloatSlice(args, "vectors")
        ops == <<ProxyCall("Search", dbName, collectionName, env.op1)>>
    IN  IF missing # "" THEN Failed(ErrRequired(missing), <<>>)
        ELSE IF vectors = 0 THEN Failed(Err(<<"vectors cannot be empty">>), <<>>)
        ELSE IF env.op1 = "error" THEN Failed(ErrOp("Search", "error"), ops)
        ELSE IF env.op1 # "ok" /\ env.nilResults THEN Panicked(ops)
        ELSE Returned(NewToolResultWithData(
                 <<"Search completed with ", IF env.op1 = "ok" THEN "1" ELSE "0", " results">>,
                 [kind |-> "search", collection_name |-> collectionName,
                  database |-> dbName]),
                 ops)

insertData(args, env) ==
    Returned(NewToolResult(<<"Insert operation would be implemented here">>), <<>>)

queryData(args, env) ==
    Returned(NewToolResult(<<"Query operation would be implemented here">>), <<>>)

deleteData(args, env) ==
    Returned(NewToolResult(<<"Delete operation would be implemented here">>), <<>>)

createIndex(args, env) ==
    Returned(NewToolResult(<<"Create index operation would be implemented here">>), <<>>)

describeIndex(args, env) ==
    Returned(NewToolResult(<<"Describe index operation would be implemented here">>), <<>>)

\* tool.Execute(ctx, toolArgs): the callback the tool was registered with
Execute(tool, args, env) ==
    CASE tool.Execute = "listCollections" -> listCollections(args, env)
      [] tool.Execute = "createCollection" -> createCollection(args, env)
      [] tool.Execute = "describeCollection" -> describeCollection(args, env)
      [] tool.Execute = "dropCollection" -> dropCollection(args, env)
      [] tool.Execute = "searchVectors" -> searchVectors(args, env)
      [] tool.Execute = "insertData" -> insertData(args, env)
      [] tool.Execute = "queryData" -> queryData(args, env)
      [] tool.Execute = "deleteData" -> deleteData(args, env)
      [] tool.Execute = "createIndex" -> createIndex(args, env)
      [] OTHER -> describeIndex(args, env)

----------------------------------------------------------------------------
(* SpecPerm: checkToolPermission as a function of its inputs.              *)
(* Init draws the cache; Check draws the principal, the tool and the       *)
(* arguments, runs the call to its return and records it.                  *)

\* tools the check is applied to: catalog tools, and tools declaring no and
\* two requirements
NoPrivTool == Tool("t.none", "insertData", "in:t.none", NoSchema, <<>>)

TwoPrivTool ==
    Tool("t.two", "insertData", "in:t.two", NoSchema,
         <<Priv(ObjectTypeDatabase, "CreateCollection", "database"),
           Priv(ObjectTypeCollection, "Insert", "collection_name")>>)

PermTools == {NoPrivTool, TwoPrivTool, registerAll["collection.list"]}

PermUsers == {"alice", "bob", "anonymous"}

PermArgs ==
    {EmptyArgs,
     Args(Absent, Str("c1"), Absent, Absent),
     Args(Str("db1"), Str(""), Absent, Absent),
     Args(Num(7), Num(5), Absent, Absent)}

\* the cache entries the drawn caches range over
PermKeys ==
    {CacheKey(role, res[1], res[2]) :
        role \in {"admin", RolePublic},
        res \in {<<PolicyForResource("default", "Database", "default"), "CreateCollection">>,
                 <<PolicyForResource("default", "Collection", "c1"), "Insert">>,
                 <<PolicyForResource("db1", "Database", "db1"), "CreateCollection">>}}
    \cup {CacheKey(RolePublic, PolicyForResource("default", "Collection", "*"), "Insert")}

PermCaches ==
    UNION {[D -> BOOLEAN] : D \in SUBSET PermKeys}

\* call: the operation applied (op), the cache before it, the frame of a
\* checkToolPermission call, and of a filterToolsByPermission call the
\* descriptions it returned and the calls it made
IdleCall ==
    [done |-> FALSE, op |-> "", before |-> [pri |-> EmptyPri, ver |-> 0], k |-> IdleFrame,
     filtered |-> <<>>, events |-> <<>>]

ConnIdle == [phase |-> "idle"]

\* no Get yet, no ping yet
NoLookup ==
    [done |-> FALSE, name |-> "", tool |-> Tool("", "", NoSchema, NoSchema, <<>>),
     exists |-> FALSE]

NoPing == [done |-> FALSE, status |-> "", toolsCount |-> 0]

\* the server as NewMcpServer returns it: the ten register calls made, no
\* request served
ServerStarted == [log |-> CatalogTools, got |-> NoLookup, served |-> 0, ping |-> NoPing]

InitCommon ==
    /\ tools = NewToolsCatalog
    /\ authEnabled \in BOOLEAN
    /\ call = IdleCall
    /\ wk = [w \in Workers |-> IdleFrame]
    /\ granted = {}
    /\ conn = ConnIdle
    /\ srv = ServerStarted
    /\ sch = NewToolSchema

InitPerm ==
    /\ InitCommon
    /\ \E pri \in PermCaches : priCache = [pri |-> pri, ver |-> 0]

Check ==
    /\ ~call.done
    /\ \E username \in PermUsers, tool \in PermTools, args \in PermArgs,
          roleErr \in BOOLEAN, junk \in BOOLEAN :
          LET r == checkToolPermission(username, tool, args, priCache,
                                       authEnabled, roleErr, junk)
          IN  /\ call' = [done |-> TRUE, op |-> "checkToolPermission", before |-> priCache,
                           k |-> r.k, filtered |-> <<>>, events |-> <<>>]
              /\ priCache' = r.c
    /\ UNCHANGED <<tools, authEnabled, wk, granted, conn, srv, sch>>

\* an affirmative entry of cache c
Affirmative(c, roleName, objectResource, objectPrivilege) ==
    LET key == CacheKey(roleName, objectResource, objectPrivilege) IN
    key \in DOMAIN c.pri /\ c.pri[key]

\* the roles bound to a principal, plus the public role
RolesPlusPublic(username) ==
    {UserRoles[username][n] : n \in 1..Len(UserRoles[username])} \cup {RolePublic}

\* requirement r of a call is satisfied in cache c: some role of the principal
\* or the public role has an affirmative entry for its resource and privilege
Satisfied(c, username, r, args) ==
    \E role \in RolesPlusPublic(username) :
        Affirmative(c, role,
                    ObjectResourceOf(r, args, GetString(args, "database", DefaultDBName)),
                    r.ObjectPrivilege)

AllSatisfied(c, username, reqs, args) ==
    \A n \in 1..Len(reqs) : Satisfied(c, username, reqs[n], args)

\* C1 as stated: with authorization enabled the check succeeds iff every
\* declared requirement has a role of the principal (or public) with an
\* affirmative cache entry; one unsatisfied requirement fails the check.
\* (Violated when the role lookup itself fails: the check then fails closed.)
C1_SucceedsIffAllSatisfied ==
    (call.done /\ authEnabled) =>
        (call.k.err.nil <=> AllSatisfied(call.before, call.k.username, call.k.reqs, call.k.args))

\* C1 amended: the same equivalence whenever the role lookup succeeds; when
\* it fails and the tool declares a requirement, the check fails.
C1_SucceedsIffAllSatisfiedGivenRoles ==
    (call.done /\ authEnabled) =>
        /\ ~call.k.roleErr =>
              (call.k.err.nil <=> AllSatisfied(call.before, call.k.username, call.k.reqs, call.k.args))
        /\ (call.k.roleErr /\ Len(call.k.reqs) > 0) => ~call.k.err.nil

\* a two-requirement call whose first requirement is satisfied and whose
\* second is not, and a two-requirement call that succeeds
C1_Witness ==
    /\ call.done /\ authEnabled /\ ~call.k.roleErr
    /\ Len(call.k.reqs) = 2
    /\ Satisfied(call.before, call.k.username, call.k.reqs[1], call.k.args)
    /\ ~Satisfied(call.before, call.k.username, call.k.reqs[2], call.k.args)
    /\ ~call.k.err.nil

----------------------------------------------------------------------------
(* SpecAuth: concurrent authorization checks.  Every worker runs one       *)
(* checkToolPermission call, one shared access per step; the authority     *)
(* (the privilege interceptor of other requests, a policy refresh) writes  *)
(* and cleans the cache in between.                                        *)

AuthUsers == {"alice"}

AuthTools == {TwoPrivTool, registerAll["collection.list"]}

AuthArgs == {EmptyArgs}

\* the entries the authority writes
AuthKeys ==
    {CacheKey("admin", PolicyForResource("default", "Database", "default"), "CreateCollection"),
     CacheKey(RolePublic, PolicyForResource("default", "Collection", "*"), "Insert")}

InitAuth ==
    /\ InitCommon
    /\ priCache = [pri |-> EmptyPri, ver |-> 0]

\* a request thread enters checkToolPermission
Begin(w) ==
    /\ wk[w].pc = "idle"
    /\ \E username \in AuthUsers, tool \in AuthTools, args \in AuthArgs, junk \in BOOLEAN :
          wk' = [wk EXCEPT ![w] = NewFrame(username, tool, args, FALSE, junk)]
    /\ UNCHANGED <<tools, authEnabled, priCache, call, granted, conn, srv, sch>>

\* the next shared access of worker w's call
Step(w) ==
    /\ wk[w].pc \in {"enter", "get", "set"}
    /\ LET s == checkStep(wk[w], priCache, authEnabled) IN
          /\ wk' = [wk EXCEPT ![w] = s.k]
          /\ priCache' = s.c
    /\ UNCHANGED <<tools, authEnabled, call, granted, conn, srv, sch>>

\* the authority records its decision for a key
AuthorityWrite ==
    /\ \E key \in AuthKeys, isPermit \in BOOLEAN :
          /\ priCache' = SetPrivilegeCache(priCache, key[1], key[2], key[3],
                                           isPermit, priCache.ver)
          /\ granted' = IF isPermit THEN granted \cup {key} ELSE granted
    /\ UNCHANGED <<tools, authEnabled, call, wk, conn, srv, sch>>

\* a policy change cleans the cache
AuthorityClean ==
    /\ priCache.ver < MaxVer
    /\ priCache' = CleanPrivilegeCache(priCache)
    /\ UNCHANGED <<tools, authEnabled, call, wk, granted, conn, srv, sch>>

NextAuth ==
    \/ \E w \in Workers : Begin(w)
    \/ \E w \in Workers : Step(w)
    \/ AuthorityWrite
    \/ AuthorityClean

SpecAuth == InitAuth /\ [][NextAuth]_vars

\* C3: under any interleaving of checks and cache writers, a call that
\* returns success (authorization enabled) has, for every requirement, a role
\* of the principal or the public role whose entry for that resource and
\* privilege the authority wrote as permitted: no race grants falsely.
C3_NoFalseGrant ==
    \A w \in Workers :
        (wk[w].pc = "return" /\ wk[w].err.nil /\ authEnabled) =>
            \A n \in 1..Len(wk[w].reqs) :
                \E role \in RolesPlusPublic(wk[w].username) :
                    CacheKey(role,
                             ObjectResourceOf(wk[w].reqs[n], wk[w].args, wk[w].dbName),
                             wk[w].reqs[n].ObjectPrivilege) \in granted

\* a two-requirement call returned success while another call had missed
\* and written a placeholder
C3_Witness ==
    \E w \in Workers, v \in Workers :
        /\ w # v /\ authEnabled
        /\ wk[w].pc = "return" /\ wk[w].err.nil /\ Len(wk[w].reqs) = 2
        /\ \E n \in 1..Len(wk[v].trace) : wk[v].trace[n].op = "set"

----------------------------------------------------------------------------
(* The dispatcher.                                                         *)
(* A request is the decoded McpRequest with what the transport attached:   *)
(* the MCP-Protocol-Version request header and the user name the auth      *)
(* middleware stored ("" when none).  The gin context c collects what the  *)
(* handler does: the response header it sets, the envelopes it writes      *)
(* (each with the response header as it was when the envelope was          *)
(* written) and the calls it makes, in order.                              *)

NilResult == [kind |-> "nil"]
NilError == [nil |-> TRUE, Code |-> 0, Message |-> <<>>, Data |-> "nil"]

\* McpError
McpError(code, message, data) ==
    [nil |-> FALSE, Code |-> code, Message |-> message, Data |-> data]

\* McpResponse
McpResponse(id, result, error) ==
    [Jsonrpc |-> "2.0", ID |-> id, Result |-> result, Error |-> error]

\* McpToolResult
McpToolResult(content, isError, structuredContent) ==
    [kind |-> "McpToolResult", Content |-> content, IsError |-> isError,
     StructuredContent |-> structuredContent]

NewContext == [hdr |-> "", written |-> <<>>, events |-> <<>>, panicked |-> FALSE]

\* a call the handler makes
Event(op, user, tool, args, ok, ops) ==
    [op |-> op, user |-> user, tool |-> tool, args |-> args, ok |-> ok, ops |-> ops]

Log(c, e) == [c EXCEPT !.events = Append(@, e)]

\* c.JSON(http.StatusOK, response): the envelope goes out with the headers set
\* so far; a float64 is written with the digits of its exact value
JSON(c, response) ==
    [c EXCEPT !.written = Append(@, [body |-> response, header |-> c.hdr]),
              !.events = Append(@, Event("JSON", "", "", EmptyArgs, TRUE, <<>>))]

\* c.Header(MCPHeaderProtocolVersion, version)
Header(c, version) ==
    [c EXCEPT !.hdr = version,
              !.events = Append(@, Event("Header", "", "", EmptyArgs, TRUE, <<>>))]

\* c.GetString("username"), with the anonymous fallback of the handlers
UserOf(req) == IF req.username = "" THEN "anonymous" ELSE req.username

returnSuccess(c, req, result) == JSON(c, McpResponse(req.id, result, NilError))

\* mutant: the error envelope also carries a result
returnError_WithResult(c, req, code, message, data) ==
    JSON(c, McpResponse(req.id, [kind |-> "empty"], McpError(code, message, data)))

returnError(c, req, code, message, data) ==
    JSON(c, McpResponse(req.id, NilResult, McpError(code, message, data)))

returnToolResult(c, req, result) == returnSuccess(c, req, result)

\* mutant: a protocolVersion parameter that is a string is taken as it is
getProtocolVersion_EchoesParameter(req) ==
    IF req.params.protocolVersion.t = "string" THEN req.params.protocolVersion.s
    ELSE IF req.header = "2025-03-26" THEN "2025-03-26"
    ELSE McpProtocolVersion

\* getProtocolVersion: the parameter, then the header, then the default
getProtocolVersion(req) ==
    IF req.params.protocolVersion.t = "string" /\ req.params.protocolVersion.s = "2025-03-26"
    THEN "2025-03-26"
    ELSE IF req.header = "2025-03-26" THEN "2025-03-26"
    ELSE McpProtocolVersion

\* the versions handleInitialize accepts as an explicit parameter (line 124)
AcceptedVersions == {"2025-03-26", "2025-06-18"}

\* a handler's outcome: the context and the privilege cache after it
World(c, cache) == [c |-> c, cache |-> cache]

handleInitialize(c, req, cache) ==
    LET returnVersion == getProtocolVersion(req)
        p == req.params.protocolVersion
    IN  IF p.t = "string" /\ p.s \notin AcceptedVersions
        THEN World(returnError(c, req, ErrorCodeInvalidParams,
                               <<"Unsupported protocol version">>,
                               "supported: 2025-06-18, 2025-03-26"), cache)
        ELSE World(Header(returnSuccess(c, req,
                       [kind |-> "McpInitializeResult",
                        ProtocolVersion |-> returnVersion,
                        ServerInfoVersion |-> returnVersion]),
                     returnVersion), cache)

\* ToolsCatalog.List: the descriptions of all tools (the order of a Go map
\* iteration is not fixed; the names are listed in one order here)
ToolOrder ==
    <<"collection.list", "collection.create", "collection.describe", "collection.drop",
      "data.insert", "data.search", "data.query", "data.delete",
      "index.create", "index.describe">>

McpToolDescription(tool) ==
    [Name |-> tool.Name, InputSchema |-> tool.InputSchema,
     OutputSchema |-> tool.OutputSchema]

RECURSIVE ListFrom(_, _)
ListFrom(tc, names) ==
    IF names = <<>> THEN <<>>
    ELSE IF Head(names) \in DOMAIN tc
         THEN <<McpToolDescription(tc[Head(names)])>> \o ListFrom(tc, Tail(names))
         ELSE ListFrom(tc, Tail(names))

List(tc) == ListFrom(tc, ToolOrder)

\* mutant: the listing is checked against a concrete collection
ListingArgs_Concrete == Args(Str(DefaultDBName), Str("c1"), Absent, Absent)

\* the argument set filterToolsByPermission checks every tool with (line 480)
ListingArgs == Args(Str(DefaultDBName), Absent, Absent, Absent)

\* filterToolsByPermission: the loop over the descriptions; st is
\* [filtered, c, cache]
RECURSIVE filterLoop(_, _, _, _)
filterLoop(st, username, descs, env) ==
    IF descs = <<>> THEN st
    ELSE LET g == Get(tools, Head(descs).Name) IN
         IF ~g.exists THEN filterLoop(st, username, Tail(descs), env)
         ELSE LET r == checkToolPermission(username, g.tool, ListingArgs, st.cache,
                                           authEnabled, env.roleErr, env.junk)
                  c1 == Log(st.c, Event("checkToolPermission", username, g.tool.Name,
                                        ListingArgs, r.k.err.nil, <<>>))
              IN  filterLoop([filtered |-> IF r.k.err.nil
                                           THEN Append(st.filtered, Head(descs))
                                           ELSE st.filtered,
                              c |-> c1, cache |-> r.c],
                             username, Tail(descs), env)

\* mutant: every description is kept, whatever the privilege check returns
filterToolsByPermission_NoFilter(c, username, descs, cache, env) ==
    [filtered |-> descs, c |-> c, cache |-> cache]

filterToolsByPermission(c, username, descs, cache, env) ==
    IF ~authEnabled THEN [filtered |-> descs, c |-> c, cache |-> cache]
    ELSE filterLoop([filtered |-> <<>>, c |-> c, cache |-> cache], username, descs, env)

handleToolsList(c, req, cache, env) ==
    LET username == UserOf(req)
        descs == List(tools)
        f == filterToolsByPermission(Log(c, Event("List", "", "", EmptyArgs, TRUE, <<>>)),
                                     username, descs, cache, env)
        protocolVersion == getProtocolVersion(req)
    IN  World(Header(returnSuccess(f.c, req,
                        [kind |-> "McpToolsListResult", Tools |-> f.filtered]),
                     protocolVersion),
              f.cache)

\* the text of a denial and of a failed execution (lines 237, 257)
DeniedText(err) == <<"Permission denied: ">> \o err.msg
FailedText(err) == <<"Error: ">> \o err.msg

\* mutant: a failed execution is answered with a protocol-level error
executeAndReturn_FailureIsProtocolError(c, req, tool, toolArgs, cache, env) ==
    LET x == Execute(tool, toolArgs, env)
        c1 == Log(c, Event("Execute", UserOf(req), tool.Name, toolArgs,
                           x.err.nil /\ ~x.panic, x.ops))
    IN  IF x.panic THEN World([c1 EXCEPT !.panicked = TRUE], cache)
        ELSE IF ~x.err.nil
        THEN World(returnError(c1, req, ErrorCodeInvalidParams, FailedText(x.err), "nil"),
                   cache)
        ELSE World(Header(returnToolResult(c1, req,
                              McpToolResult(x.result.Content, x.result.IsError,
                                            x.result.StructuredContent)),
                          getProtocolVersion(req)),
                   cache)

\* mutant: the structured payload of the tool's result is left out
executeAndReturn_DropsStructured(c, req, tool, toolArgs, cache, env) ==
    LET x == Execute(tool, toolArgs, env)
        c1 == Log(c, Event("Execute", UserOf(req), tool.Name, toolArgs,
                           x.err.nil /\ ~x.panic, x.ops))
    IN  IF x.panic THEN World([c1 EXCEPT !.panicked = TRUE], cache)
        ELSE IF ~x.err.nil
        THEN World(returnToolResult(c1, req,
                       McpToolResult(<<McpContent(FailedText(x.err))>>, TRUE, NilData)),
                   cache)
        ELSE World(Header(returnToolResult(c1, req,
                              McpToolResult(x.result.Content, x.result.IsError, NilData)),
                          getProtocolVersion(req)),
                   cache)

\* lines 244-279: the tool runs and its outcome is written
executeAndReturn(c, req, tool, toolArgs, cache, env) ==
    LET x == Execute(tool, toolArgs, env)
        c1 == Log(c, Event("Execute", UserOf(req), tool.Name, toolArgs,
                           x.err.nil /\ ~x.panic, x.ops))
    IN  IF x.panic THEN World([c1 EXCEPT !.panicked = TRUE], cache)
        ELSE IF ~x.err.nil
        THEN World(returnToolResult(c1, req,
                       McpToolResult(<<McpContent(FailedText(x.err))>>, TRUE, NilData)),
                   cache)
        ELSE World(Header(returnToolResult(c1, req,
                              McpToolResult(x.result.Content, x.result.IsError,
                                            x.result.StructuredContent)),
                          getProtocolVersion(req)),
                   cache)

\* mutant: the tool runs whatever the privilege check returned
authorizeAndExecute_IgnoresDenial(c, req, tool, toolArgs, cache, env) ==
    LET username == UserOf(req)
        r == checkToolPermission(username, tool, toolArgs, cache,
                                 authEnabled, env.roleErr, env.junk)
        c1 == Log(c, Event("checkToolPermission", username, tool.Name, toolArgs,
                           r.k.err.nil, <<>>))
    IN  executeAndReturn(c1, req, tool, toolArgs, r.c, env)

\* lines 220-242: the privilege check, and the denial when it fails
authorizeAndExecute(c, req, tool, toolArgs, cache, env) ==
    LET username == UserOf(req)
        r == checkToolPermission(username, tool, toolArgs, cache,
                                 authEnabled, env.roleErr, env.junk)
        c1 == Log(c, Event("checkToolPermission", username, tool.Name, toolArgs,
                           r.k.err.nil, <<>>))
    IN  IF ~r.k.err.nil
        THEN World(returnToolResult(c1, req,
                       McpToolResult(<<McpContent(DeniedText(r.k.err))>>, TRUE, NilData)),
                   r.c)
        ELSE executeAndReturn(c1, req, tool, toolArgs, r.c, env)

\* mutant: toolsCount is the number of tools when authorization is disabled
handlePing_CountsWhenOpen(c, req, cache) ==
    LET protocolVersion == getProtocolVersion(req) IN
    World(Header(returnSuccess(c, req,
                    [kind |-> "ping", status |-> "healthy",
                     protocolVersion |-> protocolVersion,
                     serverVersion |-> protocolVersion,
                     toolsCount |-> IF authEnabled THEN 0 ELSE Cardinality(DOMAIN tools)]),
                 protocolVersion), cache)

\* mutant: an empty name is looked up like any other name
handleToolsCall_EmptyIsLookedUp(c, req, cache, env) ==
    LET name == req.params.name
        toolName == name.s
        toolArgs == IF req.params.arguments.t = "object"
                    THEN req.params.arguments.m ELSE EmptyArgs
        g == Get(tools, toolName)
        c1 == Log(c, Event("Get", "", toolName, EmptyArgs, g.exists, <<>>))
    IN  IF name.t # "string"
        THEN World(returnError(c, req, ErrorCodeInvalidParams,
                               <<"Tool name is required">>, "nil"), cache)
        ELSE IF ~g.exists
        THEN World(returnError(c1, req, ErrorCodeMethodNotFound,
                               <<"Tool not found: ", toolName>>, "nil"), cache)
        ELSE authorizeAndExecute(c1, req, g.tool, toolArgs, cache, env)

handleToolsCall(c, req, cache, env) ==
    LET name == req.params.name
        toolName == name.s
        toolArgs == IF req.params.arguments.t = "object"
                    THEN req.params.arguments.m ELSE EmptyArgs
        g == Get(tools, toolName)
        c1 == Log(c, Event("Get", "", toolName, EmptyArgs, g.exists, <<>>))
    IN  IF name.t # "string" \/ toolName = ""
        THEN World(returnError(c, req, ErrorCodeInvalidParams,
                               <<"Tool name is required">>, "nil"), cache)
        ELSE IF ~g.exists
        THEN World(returnError(c1, req, ErrorCodeMethodNotFound,
                               <<"Tool not found: ", toolName>>, "nil"), cache)
        ELSE authorizeAndExecute(c1, req, g.tool, toolArgs, cache, env)

handlePing(c, req, cache) ==
    LET protocolVersion == getProtocolVersion(req) IN
    World(Header(returnSuccess(c, req,
                    [kind |-> "ping", status |-> "healthy",
                     protocolVersion |-> protocolVersion,
                     serverVersion |-> protocolVersion,
                     toolsCount |-> Cardinality(DOMAIN tools)]),
                 protocolVersion), cache)

\* the handlers that answer with a fixed result: notifications/initialized,
\* prompts/list, resources/list, resources/templates/list
handleFixed(c, req, cache, kind) ==
    World(Header(returnSuccess(c, req, [kind |-> kind]), getProtocolVersion(req)), cache)

handleNotificationsInitialized(c, req, cache) == handleFixed(c, req, cache, "acknowledged")
handlePromptsList(c, req, cache) == handleFixed(c, req, cache, "prompts")
handleResourcesList(c, req, cache) == handleFixed(c, req, cache, "resources")
handleResourceTemplatesList(c, req, cache) == handleFixed(c, req, cache, "resourceTemplates")

SupportedMethods ==
    {"initialize", "tools/list", "tools/call", "prompts/list", "resources/list",
     "resources/templates/list", "ping", "notifications/initialized"}

\* c.ShouldBindJSON(&req): the id and the values of params are decoded into
\* interface{} values
ShouldBindJSON(body) ==
    [body EXCEPT
        !.id = ParseFloat(@),
        !.params = [protocolVersion |-> ParseFloat(@.protocolVersion),
                    name |-> ParseFloat(@.name),
                    arguments |-> [t |-> @.arguments.t,
                                   m |-> [k \in DOMAIN @.arguments.m |->
                                             ParseFloat(@.arguments.m[k])]]]]

\* mutant: the parse-error response carries the id read from the body
ParseErrorResponse_EchoesId(req) ==
    McpResponse(req.id, NilResult, McpError(ErrorCodeParseError, <<"Parse error">>, "err"))

\* the response to a body that failed to decode (lines 65-73)
ParseErrorResponse(req) ==
    McpResponse(Null, NilResult, McpError(ErrorCodeParseError, <<"Parse error">>, "err"))

\* handleMcpRequest, lines 63-77: the body does not decode
handleMcpRequestDecodeError(c, req, cache) ==
    World(JSON(c, ParseErrorResponse(req)), cache)

\* handleMcpRequest, lines 101-105: the default case of the switch
handleMcpRequestDefault(c, req, cache) ==
    World(returnError(c, req, ErrorCodeMethodNotFound,
                      <<"Method not found: ", req.method>>, "nil"), cache)

----------------------------------------------------------------------------
(* SpecPerm, continued: the second operation it applies is                 *)
(* filterToolsByPermission, on the listing of the catalog.                 *)

\* filterToolsByPermission applied to the listing of the catalog
Filter ==
    /\ ~call.done
    /\ \E username \in PermUsers, roleErr \in BOOLEAN, junk \in BOOLEAN :
          LET f == filterToolsByPermission(NewContext, username, List(tools), priCache,
                                           [roleErr |-> roleErr, junk |-> junk])
          IN  /\ call' = [done |-> TRUE, op |-> "filterToolsByPermission",
                           before |-> priCache,
                           k |-> [IdleFrame EXCEPT !.username = username,
                                                   !.roleErr = roleErr, !.junk = junk],
                           filtered |-> f.filtered, events |-> f.c.events]
              /\ priCache' = f.cache
    /\ UNCHANGED <<tools, authEnabled, wk, granted, conn, srv, sch>>

NextPerm == Check \/ Filter

SpecPerm == InitPerm /\ [][NextPerm]_vars

\* C13: with authorization globally disabled, checkToolPermission succeeds
\* for every principal, tool and argument set without resolving roles and
\* without reading or writing the privilege cache, and
\* filterToolsByPermission returns every description of the listing, that is
\* every registered tool, without a single privilege check.
C13_DisabledAuthorizationPermitsAll ==
    (call.done /\ ~authEnabled) =>
        /\ priCache = call.before
        /\ call.op = "checkToolPermission" =>
              /\ call.k.err.nil
              /\ call.k.roleNames = <<>>
              /\ call.k.trace = <<>>
        /\ call.op = "filterToolsByPermission" =>
              /\ call.filtered = List(tools)
              /\ {call.filtered[n].Name : n \in 1..Len(call.filtered)} = DOMAIN tools
              /\ call.events = <<>>

\* with authorization disabled a two-requirement tool is permitted to a
\* principal whose role lookup would fail, on a cache holding a denial
C13_Witness ==
    /\ call.done /\ ~authEnabled /\ call.op = "checkToolPermission"
    /\ Len(call.k.reqs) = 2 /\ call.k.roleErr
    /\ \E key \in DOMAIN call.before.pri : ~call.before.pri[key]
    /\ call.k.err.nil

----------------------------------------------------------------------------
(* Spec: the dispatcher serving one request.  Init draws the privilege     *)
(* cache and the authorization switch; each action is one route of         *)
(* handleMcpRequest (the decode failure, a case of the switch on the       *)
(* method, its default), run from the body to the written response.        *)

Ids == {Null, Str("a"), Num(7), Big(1)}

ParamVersions == {Absent, Str("2025-06-18"), Str("2025-03-26"), Str("2024-11-05"), Num(7)}

Headers == {"", "2025-06-18", "2025-03-26", "2024-11-05"}

\* the envelopes of the tools/list and tools/call requests: the id, the
\* protocolVersion parameter and the request header
ToolEnvelopes ==
    {<<Null, Absent, "">>,
     <<Str("a"), Absent, "2025-03-26">>,
     <<Num(7), Str("2025-06-18"), "2025-03-26">>,
     <<Str("a"), Str("2025-03-26"), "2024-11-05">>,
     <<Big(1), Absent, "">>}

Users == {"", "alice", "bob"}

\* the name parameter of tools/call: absent, empty, not a string, unknown,
\* and registered names
ToolNames ==
    {Absent, Str(""), Num(7), Str("nope"),
     Str("collection.list"), Str("collection.create"), Str("collection.describe"),
     Str("collection.drop"), Str("data.search"), Str("data.insert")}

NoArguments == [t |-> "absent", m |-> EmptyArgs]

Object(m) == [t |-> "object", m |-> m]

\* the arguments parameter of tools/call
Arguments ==
    {NoArguments,
     [t |-> "string", m |-> EmptyArgs],
     Object(EmptyArgs),
     Object(Args(Str("db1"), Absent, Absent, Absent)),
     Object(Args(Absent, Str("c1"), Absent, Absent)),
     Object(Args(Absent, Str("c1"), Num(128), Absent)),
     Object(Args(Absent, Str("c1"), Num(0), Absent)),
     Object(Args(Absent, Str("c1"), Str("128"), Absent)),
     Object(Args(Absent, Str(""), Num(128), Absent)),
     Object(Args(Absent, Num(5), Absent, Arr(1))),
     Object(Args(Absent, Str("c1"), Absent, Arr(1))),
     Object(Args(Absent, Str("c1"), Absent, Arr(0))),
     Object(Args(Str("db1"), Str("c1"), Num(128), Arr(1)))}

Params(protocolVersion, name, arguments) ==
    [protocolVersion |-> protocolVersion, name |-> name, arguments |-> arguments]

McpRequest(id, method, params, header, username) ==
    [decodable |-> TRUE, id |-> id, method |-> method, params |-> params,
     header |-> header, username |-> username]

\* a body c.ShouldBindJSON rejects; the fields decoded before the error (the
\* id, say) stay in the request
Undecodable(id) ==
    [decodable |-> FALSE, id |-> id, method |-> "",
     params |-> Params(Absent, Absent, NoArguments), header |-> "", username |-> ""]

PlainMethods ==
    {"initialize", "prompts/list", "resources/list", "resources/templates/list",
     "ping", "notifications/initialized", "", "tools/unknown"}

Requests ==
    {Undecodable(id) : id \in Ids}
    \cup {McpRequest(id, m, Params(pv, Absent, NoArguments), h, "") :
             id \in Ids, m \in PlainMethods, pv \in ParamVersions, h \in Headers}
    \cup {McpRequest(e[1], "tools/list", Params(e[2], Absent, NoArguments), e[3], u) :
             e \in ToolEnvelopes, u \in Users}
    \cup {McpRequest(e[1], "tools/call", Params(e[2], n, a), e[3], u) :
             e \in ToolEnvelopes, u \in Users, n \in ToolNames, a \in Arguments}

\* the bodies of the requests that follow the first one served
FollowUps ==
    {Undecodable(Str("a"))}
    \cup {McpRequest(Str("a"), m, Params(Absent, Absent, NoArguments), "", "") :
             m \in PlainMethods}
    \cup {McpRequest(Num(7), "ping", Params(Absent, Absent, NoArguments), "2025-03-26", "alice")}
    \cup {McpRequest(Str("a"), "tools/list", Params(Absent, Absent, NoArguments), "", u) :
             u \in {"", "alice"}}
    \cup {McpRequest(Str("a"), "tools/call", Params(Absent, n, a), "", u) :
             u \in {"", "alice"},
             n \in {Str("collection.create"), Str("data.search")},
             a \in {Object(Args(Absent, Str("c1"), Num(128), Absent)),
                     Object(Args(Absent, Str("c1"), Absent, Arr(1)))}}

\* what the collaborators may answer while the request is handled
EnvsFor(req) ==
    LET callback == IF req.method = "tools/call" /\ req.params.name.t = "string"
                       /\ req.params.name.s \in DOMAIN tools
                    THEN tools[req.params.name.s].Execute ELSE ""
        checks == authEnabled /\ req.method \in {"tools/list", "tools/call"}
    IN  [roleErr : IF checks THEN BOOLEAN ELSE {FALSE},
         junk : IF checks THEN BOOLEAN ELSE {FALSE},
         op1 : IF callback \in {"listCollections", "createCollection", "describeCollection",
                                "dropCollection", "searchVectors"}
               THEN OpOutcomes ELSE {"ok"},
         op2 : IF callback = "createCollection" THEN OpOutcomes ELSE {"ok"},
         nilResults : IF callback = "searchVectors" THEN BOOLEAN ELSE {FALSE}]

\* the cache entries the drawn caches range over
DispatchKeys ==
    {CacheKey("admin", PolicyForResource("default", "Database", "default"), "CreateCollection"),
     CacheKey(RolePublic, PolicyForResource("default", "Collection", "c1"), "Search")}

DispatchCaches == UNION {[D -> BOOLEAN] : D \in SUBSET DispatchKeys}

\* a cache where the public role may search every collection of the default
\* database
WildcardCaches ==
    {[key \in {CacheKey(RolePublic, PolicyForResource("default", "Collection", "*"),
                        "Search")} |-> TRUE]}

Init ==
    /\ InitCommon
    /\ \E pri \in DispatchCaches \cup WildcardCaches : priCache = [pri |-> pri, ver |-> 0]

\* the bodies the next request is drawn from
Bodies == IF srv.served = 0 THEN Requests ELSE FollowUps

\* the request bodies that decode and name the method
Decodable(method) == {body \in Bodies : body.decodable /\ body.method = method}

\* the handler has returned: the context and the cache are as it left them
Respond(body, env, w) ==
    /\ conn' = [phase |-> "responded", req |-> body, env |-> env,
                before |-> priCache, c |-> w.c]
    /\ priCache' = w.cache
    /\ UNCHANGED <<tools, authEnabled, call, wk, granted, srv, sch>>

\* handleMcpRequest with a body that fails to decode
ParseError ==
    /\ conn.phase = "idle"
    /\ \E body \in Bodies : \E env \in EnvsFor(body) :
          /\ ~body.decodable
          /\ Respond(body, env,
                     handleMcpRequestDecodeError(NewContext, ShouldBindJSON(body), priCache))

\* handleMcpRequest, case "initialize"
Initialize ==
    /\ conn.phase = "idle"
    /\ \E body \in Decodable("initialize") : \E env \in EnvsFor(body) :
          Respond(body, env, handleInitialize(NewContext, ShouldBindJSON(body), priCache))

\* handleMcpRequest, case "tools/list"
ToolsList ==
    /\ conn.phase = "idle"
    /\ \E body \in Decodable("tools/list") : \E env \in EnvsFor(body) :
          Respond(body, env, handleToolsList(NewContext, ShouldBindJSON(body), priCache, env))

\* handleMcpRequest, case "tools/call"
ToolsCall ==
    /\ conn.phase = "idle"
    /\ \E body \in Decodable("tools/call") : \E env \in EnvsFor(body) :
          Respond(body, env, handleToolsCall(NewContext, ShouldBindJSON(body), priCache, env))

\* handleMcpRequest, case "prompts/list"
PromptsList ==
    /\ conn.phase = "idle"
    /\ \E body \in Decodable("prompts/list") : \E env \in EnvsFor(body) :
          Respond(body, env, handlePromptsList(NewContext, ShouldBindJSON(body), priCache))

\* handleMcpRequest, case "resources/list"
ResourcesList ==
    /\ conn.phase = "idle"
    /\ \E body \in Decodable("resources/list") : \E env \in EnvsFor(body) :
          Respond(body, env, handleResourcesList(NewContext, ShouldBindJSON(body), priCache))

\* handleMcpRequest, case "resources/templates/list"
ResourceTemplatesList ==
    /\ conn.phase = "idle"
    /\ \E body \in Decodable("resources/templates/list") : \E env \in EnvsFor(body) :
          Respond(body, env,
                  handleResourceTemplatesList(NewContext, ShouldBindJSON(body), priCache))

\* handleMcpRequest, case "ping"
Ping ==
    /\ conn.phase = "idle"
    /\ \E body \in Decodable("ping") : \E env \in EnvsFor(body) :
          Respond(body, env, handlePing(NewContext, ShouldBindJSON(body), priCache))

\* handleMcpRequest, case "notifications/initialized"
NotificationsInitialized ==
    /\ conn.phase = "idle"
    /\ \E body \in Decodable("notifications/initialized") : \E env \in EnvsFor(body) :
          Respond(body, env,
                  handleNotificationsInitialized(NewContext, ShouldBindJSON(body), priCache))

\* handleMcpRequest, the default case: any other method
MethodNotFound ==
    /\ conn.phase = "idle"
    /\ \E body \in Bodies : \E env \in EnvsFor(body) :
          /\ body.decodable /\ body.method \notin SupportedMethods
          /\ Respond(body, env,
                     handleMcpRequestDefault(NewContext, ShouldBindJSON(body), priCache))

\* handleMcpRequest: the decode and the switch on req.Method
Next ==
    \/ ParseError
    \/ Initialize
    \/ ToolsList
    \/ ToolsCall
    \/ PromptsList
    \/ ResourcesList
    \/ ResourceTemplatesList
    \/ Ping
    \/ NotificationsInitialized
    \/ MethodNotFound

Spec == Init /\ [][Next]_vars

\* the request served, its context and its responses
Served == conn.phase = "responded"
Responses == conn.c.written

Request == conn.req
Events == conn.c.events

HasResult(resp) == resp.Result.kind # "nil"
HasError(resp) == ~resp.Error.nil

\* the handler called op
Called(op) == \E n \in 1..Len(Events) : Events[n].op = op

\* a decodable tools/call request whose name parameter is a registered tool
CallsRegistered ==
    /\ Served /\ Request.decodable /\ Request.method = "tools/call"
    /\ Request.params.name.t = "string" /\ Request.params.name.s \in DOMAIN tools

CallArgs ==
    IF Request.params.arguments.t = "object" THEN Request.params.arguments.m ELSE EmptyArgs

\* the principal of the request fails the privilege check of the tool it calls
FailsCheck ==
    /\ authEnabled
    /\ Len(tools[Request.params.name.s].RequiredPrivileges) > 0
    /\ \/ conn.env.roleErr
       \/ ~AllSatisfied(conn.before, UserOf(Request),
                        tools[Request.params.name.s].RequiredPrivileges, CallArgs)

----------------------------------------------------------------------------
(* Claims about the dispatcher *)

\* C2: Execute is invoked only after the tool was found in the registry and
\* checkToolPermission succeeded for the same principal, tool and arguments;
\* a tools/call whose name is missing or unknown, or whose principal fails
\* the check, never invokes Execute.
C2_ExecuteOnlyAfterAuthorization ==
    Served =>
        /\ \A n \in 1..Len(Events) :
              Events[n].op = "Execute" =>
                 \E g \in 1..(n - 1), p \in 1..(n - 1) :
                    /\ g < p
                    /\ Events[g].op = "Get" /\ Events[g].ok
                    /\ Events[g].tool = Events[n].tool
                    /\ Events[p].op = "checkToolPermission" /\ Events[p].ok
                    /\ Events[p].user = Events[n].user
                    /\ Events[p].tool = Events[n].tool
                    /\ Events[p].args = Events[n].args
        /\ (Request.method # "tools/call" \/ ~Request.decodable) => ~Called("Execute")
        /\ (Request.method = "tools/call" /\ ~CallsRegistered) => ~Called("Execute")
        /\ (CallsRegistered /\ FailsCheck) => ~Called("Execute")

\* an authorized call ran its tool with authorization enabled
C2_Witness ==
    /\ CallsRegistered /\ authEnabled /\ Called("Execute")
    /\ Request.params.name.s = "collection.create"

\* C4 as stated: a tools/call naming a registered tool whose principal fails
\* the privilege check is answered by one successful envelope (result, no
\* error, the id of the request echoed) whose result has isError = true and a
\* single text block starting with "Permission denied".
\* (Violated by a numeric id that is not a float64: the id comes back rounded.)
C4_DenialIsToolResult ==
    (CallsRegistered /\ FailsCheck) =>
        /\ Len(Responses) = 1
        /\ LET resp == Responses[1].body IN
              /\ HasResult(resp) /\ ~HasError(resp)
              /\ resp.ID = Request.id
              /\ resp.Result.kind = "McpToolResult"
              /\ resp.Result.IsError
              /\ Len(resp.Result.Content) = 1
              /\ resp.Result.Content[1].Type = "text"
              /\ resp.Result.Content[1].Text[1] = "Permission denied: "

\* C5: the protocol-level error of a tools/call depends on the name alone and
\* is decided before authorization: a missing, empty or non-string name gives
\* -32602, a name that is not registered gives -32601 (no privilege check is
\* made, the cache is not touched), a registered name gives no protocol-level
\* error.
C5_NameDecidesProtocolError ==
    (Served /\ Request.decodable /\ Request.method = "tools/call") =>
        LET name == Request.params.name IN
        /\ (name.t # "string" \/ name.s = "") =>
              /\ Len(Responses) = 1
              /\ HasError(Responses[1].body) /\ ~HasResult(Responses[1].body)
              /\ Responses[1].body.Error.Code = -32602
              /\ ~Called("checkToolPermission") /\ priCache = conn.before
        /\ (name.t = "string" /\ name.s # "" /\ name.s \notin DOMAIN tools) =>
              /\ Len(Responses) = 1
              /\ HasError(Responses[1].body) /\ ~HasResult(Responses[1].body)
              /\ Responses[1].body.Error.Code = -32601
              /\ ~Called("checkToolPermission") /\ priCache = conn.before
        /\ CallsRegistered =>
              \A n \in 1..Len(Responses) : ~HasError(Responses[n].body)

\* an unknown tool called by a bound principal with arguments, with
\* authorization enabled
C5_Witness ==
    /\ Served /\ Request.decodable /\ Request.method = "tools/call"
    /\ Request.params.name = Str("nope")
    /\ authEnabled /\ Request.username = "alice"
    /\ Request.params.arguments.t = "object"
    /\ Len(Responses) = 1

\* C6 as stated: a decodable request whose method is none of the eight
\* supported ones (the empty method included) gets a protocol-level error
\* -32601, no result, and the id of the request with its type.
\* (Violated by a numeric id that is not a float64: the id comes back rounded.)
C6_UnknownMethod ==
    (Served /\ Request.decodable /\ Request.method \notin SupportedMethods) =>
        /\ Len(Responses) = 1
        /\ LET resp == Responses[1].body IN
              /\ HasError(resp) /\ ~HasResult(resp)
              /\ resp.Error.Code = -32601
              /\ resp.ID = Request.id

\* C7: a body that fails to decode is answered with id null and code -32700,
\* and nothing else happens: no handler, registry lookup, privilege check or
\* tool execution, and the privilege cache is untouched.
C7_ParseError ==
    (Served /\ ~Request.decodable) =>
        /\ Len(Responses) = 1
        /\ LET resp == Responses[1].body IN
              /\ resp.ID = Null
              /\ HasError(resp) /\ ~HasResult(resp)
              /\ resp.Error.Code = -32700
        /\ \A n \in 1..Len(Events) : Events[n].op = "JSON"
        /\ priCache = conn.before

\* a body that failed to decode after its id was read
C7_Witness ==
    /\ Served /\ ~Request.decodable /\ Request.id = Str("a")
    /\ Len(Responses) = 1

\* C8: every envelope the dispatcher writes carries exactly one of result
\* and error.
C8_ResultXorError ==
    Served =>
        \A n \in 1..Len(Responses) :
            HasResult(Responses[n].body) # HasError(Responses[n].body)

\* envelopes of both kinds are written: an error-flagged tool result here
C8_Witness ==
    /\ CallsRegistered /\ Len(Responses) = 1
    /\ HasResult(Responses[1].body)
    /\ Responses[1].body.Result.IsError

\* the versions the spec names as supported
SupportedVersions == {"2025-06-18", "2025-03-26"}

\* C9 as stated: an initialize request with an explicit protocolVersion
\* parameter whose value is not one of the two supported versions gets error
\* -32602, no result, and the response header is never set.
\* (Violated by a parameter that is not a string.)
C9_UnsupportedVersionRejected ==
    (Served /\ Request.decodable /\ Request.method = "initialize"
        /\ Request.params.protocolVersion.t # "absent"
        /\ ~(Request.params.protocolVersion.t = "string"
             /\ Request.params.protocolVersion.s \in SupportedVersions)) =>
        /\ Len(Responses) = 1
        /\ HasError(Responses[1].body) /\ ~HasResult(Responses[1].body)
        /\ Responses[1].body.Error.Code = -32602
        /\ conn.c.hdr = "" /\ ~Called("Header")

\* C10 as stated: the negotiated version of initialize is the explicit
\* parameter when it is a supported version, whatever the header; else the
\* header when it is a supported version; else the default 2025-06-18.
\* (Violated by the parameter 2025-06-18 with the header 2025-03-26.)
C10_VersionPriority ==
    (Served /\ Request.decodable /\ Request.method = "initialize"
        /\ Len(Responses) = 1 /\ HasResult(Responses[1].body)) =>
        LET p == Request.params.protocolVersion IN
        Responses[1].body.Result.ProtocolVersion =
            IF p.t = "string" /\ p.s \in SupportedVersions THEN p.s
            ELSE IF Request.header \in SupportedVersions THEN Request.header
            ELSE "2025-06-18"

----------------------------------------------------------------------------
(* Claims about the responses of tools/list and tools/call *)

\* the request as the handlers see it, and the version negotiated for it
Decoded == ShouldBindJSON(Request)
Negotiated == getProtocolVersion(Decoded)

\* C11 as stated: whenever the dispatcher has written an envelope that
\* carries a result (the error-flagged tool results of a denial and of a
\* failed execution included), the protocol-version response header is set
\* to the version negotiated for the request.
\* (Violated by a denied tools/call: the handler returns without setting it.)
C11_SuccessCarriesVersionHeader ==
    Served =>
        \A n \in 1..Len(Responses) :
            HasResult(Responses[n].body) => conn.c.hdr = Negotiated

\* the tools of a tools/list result
Listed == Responses[1].body.Result.Tools

\* no role of the principal, nor the public role, has an affirmative entry
NoPrivileges(c, username) ==
    \A key \in DOMAIN c.pri : key[1] \in RolesPlusPublic(username) => ~c.pri[key]

\* C12: tools/list answers with one successful envelope, never a
\* protocol-level error; the tools it lists are descriptions of registered
\* tools, each at most once; and with authorization enabled a principal for
\* whom no role (the public role included) holds an affirmative privilege
\* entry is shown no tool that declares a privilege requirement.
C12_ListIsPermittedSubset ==
    (Served /\ Request.decodable /\ Request.method = "tools/list") =>
        /\ Len(Responses) = 1
        /\ HasResult(Responses[1].body) /\ ~HasError(Responses[1].body)
        /\ Responses[1].body.Result.kind = "McpToolsListResult"
        /\ \A n \in 1..Len(Listed) :
              /\ Listed[n].Name \in DOMAIN tools
              /\ Listed[n] = McpToolDescription(tools[Listed[n].Name])
              /\ \A m \in 1..Len(Listed) : Listed[m].Name = Listed[n].Name => m = n
        /\ (authEnabled /\ NoPrivileges(conn.before, UserOf(Request))) =>
              \A n \in 1..Len(Listed) :
                  Len(tools[Listed[n].Name].RequiredPrivileges) = 0

\* a principal without privileges lists nothing while another role holds an
\* affirmative entry and the cache misses come back with isPermit set
C12_Witness ==
    /\ Served /\ Request.decodable /\ Request.method = "tools/list"
    /\ authEnabled /\ ~conn.env.roleErr /\ conn.env.junk
    /\ NoPrivileges(conn.before, UserOf(Request))
    /\ \E key \in DOMAIN conn.before.pri : conn.before.pri[key]
    /\ Len(Responses) = 1 /\ Listed = <<>>

\* the tool a tools/call names, the arguments the handler passes to it and
\* what its Execute callback does with them
ToolCalled == tools[Request.params.name.s]

ToolArgs ==
    IF Decoded.params.arguments.t = "object" THEN Decoded.params.arguments.m ELSE EmptyArgs

Outcome == Execute(ToolCalled, ToolArgs, conn.env)

\* the call passed the privilege check and its callback ran
Executed == CallsRegistered /\ Called("Execute")

\* C14: an authorized tools/call whose Execute callback returns an error (a
\* failed delegated operation, a missing required parameter, an invalid
\* value) is answered with one successful envelope whose result has
\* isError = true, a single text block with the error text and no structured
\* payload; it is never a protocol-level error.
C14_ExecutionFailureIsToolResult ==
    (Executed /\ ~Outcome.panic /\ ~Outcome.err.nil) =>
        /\ Len(Responses) = 1
        /\ LET resp == Responses[1].body IN
              /\ HasResult(resp) /\ ~HasError(resp)
              /\ resp.Result.kind = "McpToolResult"
              /\ resp.Result.IsError
              /\ resp.Result.Content = <<McpContent(<<"Error: ">> \o Outcome.err.msg)>>
              /\ resp.Result.StructuredContent = NilData

\* an authorized collection.create whose CreateCollection fails in transport,
\* with authorization enabled
C14_Witness ==
    /\ Executed /\ authEnabled
    /\ Request.params.name.s = "collection.create"
    /\ conn.env.op1 = "error"
    /\ Len(Outcome.ops) = 1 /\ ~Outcome.err.nil
    /\ Len(Responses) = 1

\* a delegated operation of the executed tool failed or answered non-OK
OpsFailed ==
    \E n \in 1..Len(Events) :
        /\ Events[n].op = "Execute"
        /\ \E k \in 1..Len(Events[n].ops) : Events[n].ops[k].outcome # "ok"

\* C15 as stated: when a delegated operation of the tool ended with a
\* transport error or a status other than OK, the tool call is an execution
\* failure: the response is the error-flagged tool result of a failed
\* execution, never a non-error result.
\* (Violated by a Search answered with a non-OK status, and by a failed
\* CreateIndex after CreateCollection.)
C15_DelegatedFailureIsExecutionFailure ==
    (Served /\ OpsFailed) =>
        /\ Len(Responses) = 1
        /\ Responses[1].body.Result.kind = "McpToolResult"
        /\ Responses[1].body.Result.IsError
        /\ Responses[1].body.Result.Content[1].Text[1] = "Error: "

\* C16 as stated: a tools/call result is either the result of a call all of
\* whose steps succeeded, or carries only error content (error flag, one text
\* block, no structured payload); a result with status "created" is never
\* returned when a step of the create-collection tool failed.
\* (Violated by collection.create when the CreateIndex that follows the
\* creation fails: the result still reports "created".)
C16_NoPartialResults ==
    (CallsRegistered /\ Len(Responses) = 1 /\ HasResult(Responses[1].body)) =>
        LET res == Responses[1].body.Result IN
        /\ OpsFailed =>
              /\ res.IsError
              /\ Len(res.Content) = 1
              /\ res.StructuredContent = NilData
        /\ (res.StructuredContent.kind = "create"
              /\ res.StructuredContent.status = "created") => ~OpsFailed

\* C17: an authorized tools/call whose Execute callback returns a result
\* without error is answered with one successful envelope whose result has
\* exactly the content blocks, the isError flag and the structured payload
\* of the callback's result.
C17_ResultPassedThrough ==
    (Executed /\ ~Outcome.panic /\ Outcome.err.nil) =>
        /\ Len(Responses) = 1
        /\ LET resp == Responses[1].body IN
              /\ HasResult(resp) /\ ~HasError(resp)
              /\ resp.Result = McpToolResult(Outcome.result.Content,
                                             Outcome.result.IsError,
                                             Outcome.result.StructuredContent)

\* an authorized collection.create that returned its text and its structured
\* payload, with authorization enabled
C17_Witness ==
    /\ Executed /\ authEnabled
    /\ Request.params.name.s = "collection.create"
    /\ Outcome.err.nil /\ ~Outcome.panic
    /\ Outcome.result.StructuredContent.kind = "create"
    /\ Len(Responses) = 1

----------------------------------------------------------------------------
(* SpecReg: the registry as a key-value store.  The map starts empty, as   *)
(* NewToolsCatalog makes it; Register applies register to a drawn tool,    *)
(* Lookup applies Get to a drawn name and records what it returned.        *)

\* two definitions under the name "a", one under "b" that shares a schema
\* object with the first, and a tool of the catalog
RegTools ==
    {Tool("a", "insertData", "in:a1", NoSchema, <<>>),
     Tool("a", "queryData", "in:a2", "out:a2",
          <<Priv(ObjectTypeCollection, "Query", "collection_name")>>),
     Tool("b", "insertData", "in:a1", NoSchema,
          <<Priv(ObjectTypeDatabase, "CreateCollection", "database"),
            Priv(ObjectTypeCollection, "Insert", "collection_name")>>),
     CatalogTools[1]}

RegNames == {"a", "b", "c", "", "collection.list"}

InitReg ==
    /\ tools = EmptyCatalog
    /\ authEnabled = FALSE
    /\ priCache = [pri |-> EmptyPri, ver |-> 0]
    /\ call = IdleCall
    /\ wk = [w \in Workers |-> IdleFrame]
    /\ granted = {}
    /\ conn = ConnIdle
    /\ srv = [log |-> <<>>, got |-> NoLookup, served |-> 0, ping |-> NoPing]
    /\ sch = NewToolSchema

\* tc.register(tool)
Register ==
    /\ Len(srv.log) < MaxRegs
    /\ \E tool \in RegTools :
          /\ tools' = register(tools, tool)
          /\ srv' = [srv EXCEPT !.log = Append(@, tool), !.got = NoLookup]
    /\ UNCHANGED <<authEnabled, priCache, call, wk, granted, conn, sch>>

\* tc.Get(name)
Lookup ==
    /\ \E name \in RegNames :
          LET g == Get(tools, name) IN
          srv' = [srv EXCEPT !.got = [done |-> TRUE, name |-> name,
                                      tool |-> g.tool, exists |-> g.exists]]
    /\ UNCHANGED <<tools, authEnabled, priCache, call, wk, granted, conn, sch>>

NextReg == Register \/ Lookup

SpecReg == InitReg /\ [][NextReg]_vars

\* the register calls made so far under a name
RegisteredAs(name) == {n \in 1..Len(srv.log) : srv.log[n].Name = name}

\* C19: Get of a name returns found = true and the definition of the last
\* register call under that name (name, execute callback, schema pointers
\* and privilege list identical), so a second registration under a name
\* overwrites the first; Get of a name never registered returns
\* found = false; the registry holds exactly the registered names.
C19_RegistryIsKeyValueStore ==
    /\ DOMAIN tools = {srv.log[n].Name : n \in 1..Len(srv.log)}
    /\ srv.got.done =>
          LET hits == RegisteredAs(srv.got.name) IN
          IF hits = {} THEN ~srv.got.exists
          ELSE /\ srv.got.exists
               /\ \E last \in hits :
                     /\ \A n \in hits : n <= last
                     /\ srv.got.tool = srv.log[last]

\* a name registered twice with different definitions, then fetched
C19_Witness ==
    /\ srv.got.done /\ srv.got.exists
    /\ \E m \in RegisteredAs(srv.got.name), n \in RegisteredAs(srv.got.name) :
          m < n /\ srv.log[m] # srv.log[n] /\ srv.got.tool = srv.log[n]

----------------------------------------------------------------------------
(* SpecSeq: the server from its construction on.  NewToolsCatalog makes    *)
(* the map and registerAll fills it, one register call per step; when it   *)
(* has returned the server is handed to the router (Publish) and handles   *)
(* one request after the other, each by the action of its route.           *)

Constructing == [phase |-> "constructing"]

InitSeq ==
    /\ tools = EmptyCatalog
    /\ authEnabled \in BOOLEAN
    /\ \E pri \in DispatchCaches : priCache = [pri |-> pri, ver |-> 0]
    /\ call = IdleCall
    /\ wk = [w \in Workers |-> IdleFrame]
    /\ granted = {}
    /\ conn = Constructing
    /\ srv = [log |-> <<>>, got |-> NoLookup, served |-> 0, ping |-> NoPing]
    /\ sch = NewToolSchema

\* the next register call of registerAll
RegisterNext ==
    /\ conn.phase = "constructing"
    /\ Len(srv.log) < Len(CatalogTools)
    /\ LET tool == CatalogTools[Len(srv.log) + 1] IN
          /\ tools' = register(tools, tool)
          /\ srv' = [srv EXCEPT !.log = Append(@, tool)]
    /\ UNCHANGED <<authEnabled, priCache, call, wk, granted, conn, sch>>

\* NewToolsCatalog and NewMcpServer return, RegisterRoutes installs the handler
Publish ==
    /\ conn.phase = "constructing"
    /\ registerAllReturned(srv.log)
    /\ conn' = ConnIdle
    /\ UNCHANGED <<tools, authEnabled, priCache, call, wk, granted, srv, sch>>

\* status and toolsCount of the ping result just written, else the last ones
PingSeen ==
    IF conn.req.decodable /\ conn.req.method = "ping" /\ Len(conn.c.written) = 1
    THEN [done |-> TRUE, status |-> conn.c.written[1].body.Result.status,
          toolsCount |-> conn.c.written[1].body.Result.toolsCount]
    ELSE srv.ping

\* handleMcpRequest has returned; the server takes the next request
Close ==
    /\ conn.phase = "responded"
    /\ srv.served + 1 < MaxRequests
    /\ srv' = [srv EXCEPT !.served = @ + 1, !.ping = PingSeen]
    /\ conn' = ConnIdle
    /\ UNCHANGED <<tools, authEnabled, priCache, call, wk, granted, sch>>

NextSeq ==
    \/ RegisterNext
    \/ Publish
    \/ ParseError
    \/ Initialize
    \/ ToolsList
    \/ ToolsCall
    \/ PromptsList
    \/ ResourcesList
    \/ ResourceTemplatesList
    \/ Ping
    \/ NotificationsInitialized
    \/ MethodNotFound
    \/ Close

SpecSeq == InitSeq /\ [][NextSeq]_vars

\* C18: every ping is answered with one successful envelope whose result has
\* status "healthy" and toolsCount equal to the number of registered tools,
\* whoever calls and whether or not authorization is enabled; its status and
\* toolsCount are those of the ping before it, whatever requests were served
\* in between.
C18_PingIsConstant ==
    (Served /\ Request.decodable /\ Request.method = "ping") =>
        /\ Len(Responses) = 1
        /\ LET resp == Responses[1].body IN
              /\ HasResult(resp) /\ ~HasError(resp)
              /\ resp.Result.status = "healthy"
              /\ resp.Result.toolsCount = Cardinality(DOMAIN tools)
              /\ resp.Result.toolsCount = Len(CatalogTools)
              /\ srv.ping.done =>
                    /\ resp.Result.status = srv.ping.status
                    /\ resp.Result.toolsCount = srv.ping.toolsCount

\* with authorization enabled, a ping of a bound principal after an earlier
\* ping and a request that wrote to the privilege cache
C18_Witness ==
    /\ Served /\ Request.decodable /\ Request.method = "ping"
    /\ authEnabled /\ Request.username = "alice"
    /\ srv.ping.done /\ srv.served = 2
    /\ \E key \in DOMAIN priCache.pri : key \notin DispatchKeys
    /\ Len(Responses) = 1

\* C20: once NewToolsCatalog has returned, the registry is the one
\* registerAll built and stays so through every request of every method:
\* the registered names and every definition are those of construction, no
\* register call is made after it, and no request is handled (no Get, no
\* List) before every register call has been made.
C20_RegistryImmutableAfterConstruction ==
    /\ conn.phase # "constructing" =>
          /\ tools = NewToolsCatalog
          /\ srv.log = CatalogTools
    /\ conn.phase = "constructing" =>
          /\ srv.served = 0
          /\ tools = registerSeq(EmptyCatalog, srv.log)

\* a tool has run in a request served after an earlier one, on the registry
\* built step by step
C20_Witness ==
    /\ Served /\ srv.served >= 1
    /\ CallsRegistered /\ Called("Execute")
    /\ DOMAIN tools = {CatalogTools[n].Name : n \in 1..Len(CatalogTools)}

----------------------------------------------------------------------------
(* SpecSchema: a schema built by calls of its builder methods              *)
(*                                                                         *)
(* The schema starts as NewToolSchema returns it; each step applies        *)
(* AddParameter or AddRequired with drawn names, as any caller of the      *)
(* exported methods may.                                                   *)

SchemaNames == {"database", "collection_name", "dimension"}

\* the variadic argument lists of AddRequired: one or two names
RequiredLists ==
    {<<a>> : a \in SchemaNames} \cup {<<a, b>> : a \in SchemaNames, b \in SchemaNames}

InitSchema ==
    /\ tools = NewToolsCatalog
    /\ authEnabled = FALSE
    /\ priCache = [pri |-> EmptyPri, ver |-> 0]
    /\ call = IdleCall
    /\ wk = [w \in Workers |-> IdleFrame]
    /\ granted = {}
    /\ conn = ConnIdle
    /\ srv = ServerStarted
    /\ sch = NewToolSchema

\* s.AddParameter(name, param)
AddParameterCall ==
    /\ \E name \in SchemaNames : sch' = AddParameter(sch, name)
    /\ UNCHANGED <<tools, authEnabled, priCache, call, wk, granted, conn, srv>>

\* s.AddRequired(params...)
AddRequiredCall ==
    /\ \E params \in RequiredLists :
          /\ Len(sch.Required) + Len(params) <= MaxRequired
          /\ sch' = AddRequired(sch, params)
    /\ UNCHANGED <<tools, authEnabled, priCache, call, wk, granted, conn, srv>>

NextSchema == AddParameterCall \/ AddRequiredCall

SpecSchema == InitSchema /\ [][NextSchema]_vars

\* every name of the required list is a key of the parameter mapping
RequiredAreParameters(s) ==
    \A n \in 1..Len(s.Required) : s.Required[n] \in s.Properties

\* the schema objects attached to the registered tools
AttachedSchemas ==
    {SchemaHeap(tools[name].InputSchema) : name \in DOMAIN tools}
    \cup {SchemaHeap(tools[name].OutputSchema) :
             name \in {n \in DOMAIN tools : tools[n].OutputSchema # NoSchema}}

\* C21: every schema, whether built by a sequence of NewToolSchema,
\* AddParameter and AddRequired calls or attached as input or output schema
\* to a registered tool, has every name of its required list as a key of its
\* parameter mapping.
C21_RequiredAreParameters ==
    /\ RequiredAreParameters(sch)
    /\ \A s \in AttachedSchemas : RequiredAreParameters(s)

----------------------------------------------------------------------------
(* Claims about the response written for a request *)

\* C22: every request, decodable or not, produces exactly one response
\* envelope on every path through the dispatcher: no path writes zero
\* responses or two.  (The second half of the claim, that the response
\* depends on nothing but the request, the registry, the authorization
\* configuration and the privilege cache, is how the handlers are defined:
\* each is a function of exactly these and of what the collaborators answer.)
C22_ExactlyOneResponse ==
    Served => Len(Responses) = 1

----------------------------------------------------------------------------
(* Claims about checkToolPermission and the filter of the listing, checked *)
(* under SpecPerm                                                          *)

FilterDone == call.done /\ call.op = "filterToolsByPermission"
CheckDone == call.done /\ call.op = "checkToolPermission"

\* the names of the descriptions the filter returned
FilteredNames == {call.filtered[n].Name : n \in 1..Len(call.filtered)}

\* the argument set that holds database = default and nothing else
OnlyDefaultDatabase == [key \in {"database"} |-> Str("default")]

\* the object a requirement names when no object is given: the default
\* database itself, or every collection of the default database
WildcardResource(r) ==
    <<r.ObjectType, "default", IF r.ObjectType = "Database" THEN "default" ELSE "*">>

\* C23: with authorization enabled a registered tool is in the filtered
\* listing for a principal if and only if checkToolPermission succeeds for
\* that principal and tool with the argument set holding only
\* database = default; a collection-scoped requirement is thereby checked
\* against the wildcard collection "*" of the default database, never
\* against a concrete collection.
C23_ListedIffPermittedOnDefault ==
    (FilterDone /\ authEnabled) =>
        \A name \in DOMAIN tools :
            /\ name \in FilteredNames <=>
                  checkToolPermission(call.k.username, tools[name], OnlyDefaultDatabase,
                                      call.before, authEnabled, call.k.roleErr,
                                      call.k.junk).k.err.nil
            /\ name \in FilteredNames <=>
                  \/ Len(tools[name].RequiredPrivileges) = 0
                  \/ /\ ~call.k.roleErr
                     /\ \A n \in 1..Len(tools[name].RequiredPrivileges) :
                           LET r == tools[name].RequiredPrivileges[n] IN
                           \E role \in RolesPlusPublic(call.k.username) :
                               Affirmative(call.before, role, WildcardResource(r),
                                           r.ObjectPrivilege)

\* the public role holds Insert on every collection of the default database
\* and on collection c1: data.insert is listed; and a listing where Insert
\* is held on c1 only, which leaves data.insert out
C23_Witness ==
    /\ FilterDone /\ authEnabled /\ ~call.k.roleErr
    /\ Affirmative(call.before, RolePublic,
                   PolicyForResource("default", "Collection", "c1"), "Insert")
    /\ Affirmative(call.before, RolePublic,
                   PolicyForResource("default", "Collection", "*"), "Insert")
    /\ "data.insert" \in FilteredNames
    /\ "data.search" \notin FilteredNames

\* the cache accesses of the call, in order
Trace == call.k.trace

SameKey(a, b) == a.role = b.role /\ a.res = b.res /\ a.priv = b.priv

Miss(a) == a.op = "get" /\ ~a.cached
Hit(a) == a.op = "get" /\ a.cached /\ a.isPermit

\* the keys the call looked up and did not find
MissedKeys ==
    {CacheKey(Trace[n].role, Trace[n].res, Trace[n].priv) :
        n \in {x \in 1..Len(Trace) : Miss(Trace[x])}}

\* C24: during checkToolPermission a cache miss never satisfies the
\* requirement, whatever isPermit value the lookup returned: it is followed
\* by exactly one write, of the value false, for the same key and with the
\* version the lookup returned, and then by the next role of the same
\* requirement or by the denial.  The check writes nothing else: no
\* affirmative entry, no key it read as cached; and after the first
\* affirmative hit of a requirement no further role is looked up for it.
C24_MissWritesOnePlaceholder ==
    (CheckDone /\ authEnabled) =>
        /\ \A n \in 1..Len(Trace) :
              Miss(Trace[n]) =>
                 /\ n < Len(Trace)
                 /\ Trace[n + 1] = [op |-> "set", role |-> Trace[n].role,
                                    res |-> Trace[n].res, priv |-> Trace[n].priv,
                                    cached |-> FALSE, isPermit |-> FALSE,
                                    version |-> Trace[n].version]
                 /\ IF n + 2 <= Len(Trace)
                    THEN /\ Trace[n + 2].op = "get"
                         /\ Trace[n + 2].res = Trace[n].res
                         /\ Trace[n + 2].priv = Trace[n].priv
                         /\ Trace[n + 2].role # Trace[n].role
                    ELSE ~call.k.err.nil
        /\ \A n \in 1..Len(Trace) :
              Trace[n].op = "set" =>
                 /\ n > 1
                 /\ Miss(Trace[n - 1]) /\ SameKey(Trace[n - 1], Trace[n])
                 /\ ~Trace[n].isPermit
        /\ \A n \in 1..Len(Trace) :
              Hit(Trace[n]) =>
                 \A x \in (n + 1)..Len(Trace) :
                     ~(Trace[x].res = Trace[n].res /\ Trace[x].priv = Trace[n].priv)
        /\ priCache.ver = call.before.ver
        /\ priCache.pri = [key \in DOMAIN call.before.pri \cup MissedKeys |->
                              IF key \in DOMAIN call.before.pri
                              THEN call.before.pri[key] ELSE FALSE]

\* a call with two requirements and three roles: a miss whose lookup
\* returned isPermit = true, its placeholder, then an affirmative hit of a
\* later role, and the call succeeds
C24_Witness ==
    /\ CheckDone /\ authEnabled /\ call.k.err.nil
    /\ Len(call.k.reqs) = 2 /\ Len(call.k.roleNames) = 3
    /\ \E n \in 1..Len(Trace) :
          /\ Miss(Trace[n]) /\ Trace[n].isPermit
          /\ n + 2 <= Len(Trace) /\ Hit(Trace[n + 2])
          /\ n + 3 <= Len(Trace)

\* The object a requirement is checked against

\* the argument is present and a non-empty string
IsName(args, key) == key \in DOMAIN args /\ args[key].t = "string" /\ args[key].s # ""

\* the database the call is about
DatabaseOf(args) == IF IsName(args, "database") THEN args["database"].s ELSE "default"

\* the object name of a requirement as the claim states it
NameChecked(r, args) ==
    LET named == IF IsName(args, r.ObjectNameField) THEN args[r.ObjectNameField].s ELSE "*"
    IN  IF r.ObjectType = "Database" /\ named = "*" THEN DatabaseOf(args) ELSE named

\* C25: for each privilege requirement the object name checked is the
\* non-empty string value of the argument the requirement's field names, or
\* "*" when that argument is absent, empty or not a string; for a Database
\* requirement whose name is still "*" it is the database name resolved from
\* the database argument (the default database when that is absent); and the
\* denial message names this object name with the privilege and the object
\* type of the requirement that failed.
C25_ObjectNameResolution ==
    (CheckDone /\ authEnabled) =>
        /\ \A n \in 1..Len(Trace) :
              \E i \in 1..Len(call.k.reqs) :
                  /\ Trace[n].priv = call.k.reqs[i].ObjectPrivilege
                  /\ Trace[n].res = <<call.k.reqs[i].ObjectType, DatabaseOf(call.k.args),
                                      NameChecked(call.k.reqs[i], call.k.args)>>
        /\ (~call.k.err.nil /\ ~call.k.roleErr) =>
              \E i \in 1..Len(call.k.reqs) :
                  /\ call.k.err.msg =
                        <<"permission denied: ", call.k.reqs[i].ObjectPrivilege,
                          " privilege required on ", call.k.reqs[i].ObjectType, ":",
                          NameChecked(call.k.reqs[i], call.k.args)>>
                  /\ \A n \in 1..Len(Trace) :
                        (Trace[n].priv = call.k.reqs[i].ObjectPrivilege
                         /\ Trace[n].res[1] = call.k.reqs[i].ObjectType) => ~Hit(Trace[n])

\* a denial of a Database requirement on a call whose database argument is
\* a number: the message names the default database
C25_Witness ==
    /\ CheckDone /\ authEnabled /\ ~call.k.err.nil
    /\ "database" \in DOMAIN call.k.args /\ call.k.args["database"].t = "number"
    /\ "collection_name" \in DOMAIN call.k.args
    /\ call.k.args["collection_name"].t = "number"
    /\ call.k.err.msg = <<"permission denied: ", "CreateCollection",
                          " privilege required on ", "Database", ":", "default">>
    /\ Len(Trace) > 0

----------------------------------------------------------------------------
(* Claims about the tools' own validation *)

\* the arguments of the call fail the validation of the tool called
ValidationFails ==
    LET callback == ToolCalled.Execute
        has(key) == key \in DOMAIN ToolArgs
    IN  \/ /\ callback = "createCollection"
           /\ \/ ~has("collection_name")
              \/ ~has("dimension")
              \/ ToolArgs["dimension"].t # "number"
              \/ ToolArgs["dimension"].n <= 0
        \/ /\ callback \in {"describeCollection", "dropCollection"}
           /\ ~has("collection_name")
        \/ /\ callback = "searchVectors"
           /\ \/ ~has("collection_name")
              \/ ~has("vectors")
              \/ ToolArgs["vectors"].t # "array"
              \/ ToolArgs["vectors"].n = 0

\* C26: when the tool's own validation fails (a required parameter key is
\* absent, the dimension of create-collection is not positive or is not a
\* number, the vector list of search is empty) the callback returns an error
\* and invokes no delegated data-plane operation during that call.
C26_ValidationFailureCallsNothing ==
    (Executed /\ ValidationFails) =>
        /\ ~Outcome.panic /\ ~Outcome.err.nil
        /\ Outcome.ops = <<>>
        /\ \A n \in 1..Len(Events) :
              Events[n].op = "Execute" => (~Events[n].ok /\ Events[n].ops = <<>>)
        /\ Len(Responses) = 1 /\ HasResult(Responses[1].body)
        /\ Responses[1].body.Result.IsError

\* collection.create is executed with the dimension given as a string, with
\* a delegated operation that would have failed
C26_Witness ==
    /\ Executed /\ ValidationFails
    /\ ToolCalled.Execute = "createCollection"
    /\ "dimension" \in DOMAIN ToolArgs /\ ToolArgs["dimension"].t = "string"
    /\ conn.env.op1 # "ok"
    /\ \E n \in 1..Len(Events) : Events[n].op = "Execute" /\ Events[n].ops = <<>>

----------------------------------------------------------------------------
(* Claims about the protocol version of a response *)

\* the positions of the calls of op among the calls of the handler
Calls(op) == {n \in 1..Len(Events) : Events[n].op = op}

\* C27: in every handler that sets the protocol-version response header, the
\* header is set before the response envelope is written, so that the header
\* is part of the response emitted for the request.
\* (Violated by every handler that sets it: c.Header follows c.JSON.)
C27_HeaderBeforeEnvelope ==
    (Served /\ Called("Header")) =>
        /\ \A h \in Calls("Header"), w \in Calls("JSON") : h < w
        /\ \A n \in 1..Len(Responses) : Responses[n].header = conn.c.hdr

\* C28: whatever the protocolVersion parameter and the request header hold
\* (absent, supported, unsupported, not a string), the version
\* getProtocolVersion computes for a request, and the version an initialize
\* result, a ping result or the response header reports, is 2025-06-18 or
\* 2025-03-26.
C28_VersionIsSupported ==
    (Served /\ Request.decodable) =>
        /\ Negotiated \in SupportedVersions
        /\ Called("Header") => conn.c.hdr \in SupportedVersions
        /\ \A n \in 1..Len(Responses) :
              LET result == Responses[n].body.Result IN
              /\ result.kind = "McpInitializeResult" =>
                    /\ result.ProtocolVersion \in SupportedVersions
                    /\ result.ServerInfoVersion \in SupportedVersions
              /\ result.kind = "ping" =>
                    /\ result.protocolVersion \in SupportedVersions
                    /\ result.serverVersion \in SupportedVersions

\* a ping whose protocolVersion parameter is an unsupported version and
\* whose request header is another one, and a ping whose parameter is a
\* number: both answered
C28_Witness ==
    /\ Served /\ Request.decodable /\ Request.method = "ping"
    /\ Request.params.protocolVersion \in {Str("2024-11-05"), Num(7)}
    /\ Request.header = "2024-11-05"
    /\ Len(Responses) = 1 /\ Responses[1].body.Result.kind = "ping"
    /\ Called("Header")

----------------------------------------------------------------------------
(* Claims about what a privilege check lets through *)

\* the privilege check of the tool a tools/call names, as the handler makes it
CheckOfCall ==
    checkToolPermission(UserOf(Request), ToolCalled, ToolArgs, conn.before,
                        authEnabled, conn.env.roleErr, conn.env.junk)

\* C29: authorization fails closed when the role lookup fails.  With
\* authorization enabled and a tool that declares a requirement, a failing
\* role lookup makes checkToolPermission return an error without a read or a
\* write of the privilege cache; tools/call answers with an error-flagged
\* result and does not invoke Execute; tools/list leaves the tool out.
C29_RoleErrorFailsClosed ==
    (Served /\ Request.decodable /\ authEnabled /\ conn.env.roleErr) =>
        /\ priCache = conn.before
        /\ (CallsRegistered /\ Len(ToolCalled.RequiredPrivileges) > 0) =>
              /\ ~CheckOfCall.k.err.nil
              /\ CheckOfCall.k.trace = <<>>
              /\ CheckOfCall.c = conn.before
              /\ ~Called("Execute")
              /\ Len(Responses) = 1 /\ ~HasError(Responses[1].body)
              /\ Responses[1].body.Result.kind = "McpToolResult"
              /\ Responses[1].body.Result.IsError
        /\ Request.method = "tools/list" =>
              /\ Len(Responses) = 1 /\ HasResult(Responses[1].body)
              /\ \A n \in 1..Len(Listed) :
                    Len(tools[Listed[n].Name].RequiredPrivileges) = 0

\* the role lookup fails for a data.search on c1 while the public role holds
\* Search on c1: the call is refused
C29_Witness ==
    /\ CallsRegistered /\ authEnabled /\ conn.env.roleErr
    /\ ToolCalled.Name = "data.search"
    /\ Affirmative(conn.before, RolePublic,
                   PolicyForResource("default", "Collection", "c1"), "Search")
    /\ GetString(ToolArgs, "collection_name", "") = "c1"
    /\ Called("checkToolPermission") /\ ~Called("Execute")
    /\ Responses[1].body.Result.IsError

\* the tool called declares a requirement on a collection
CollectionScoped ==
    \E n \in 1..Len(ToolCalled.RequiredPrivileges) :
        ToolCalled.RequiredPrivileges[n].ObjectType = "Collection"

\* C30: with authorization enabled, the database and collection name a
\* collection-scoped tool passes to a delegated operation are those the
\* privilege check of the call was made against, or the check was made
\* against the wildcard collection of that database; an absent, empty or
\* mistyped argument never makes the tool operate on another object than the
\* one authorized.
C30_OperatesOnCheckedObject ==
    (Executed /\ authEnabled /\ CollectionScoped) =>
        /\ CheckOfCall.k.err.nil
        /\ \A n \in 1..Len(Events) :
              Events[n].op = "Execute" =>
                 \A x \in 1..Len(Events[n].ops) :
                     LET o == Events[n].ops[x] IN
                     /\ Len(CheckOfCall.k.trace) > 0
                     /\ \A t \in 1..Len(CheckOfCall.k.trace) :
                           LET res == CheckOfCall.k.trace[t].res IN
                           \/ res = <<"Collection", o.db, o.coll>>
                           \/ res = <<"Collection", o.db, "*">>

\* a search whose collection name is a number, by a principal authorized on
\* every collection of the default database: the check is made against the
\* wildcard and the operation is given the empty name in the same database
C30_Witness ==
    /\ Executed /\ authEnabled /\ ToolCalled.Name = "data.search"
    /\ "collection_name" \in DOMAIN ToolArgs
    /\ ToolArgs["collection_name"].t = "number"
    /\ CheckOfCall.k.trace[1].res = <<"Collection", "default", "*">>
    /\ \E n \in 1..Len(Events) :
          /\ Events[n].op = "Execute" /\ Len(Events[n].ops) = 1
          /\ Events[n].ops[1].db = "default" /\ Events[n].ops[1].coll = ""

----------------------------------------------------------------------------
(* Claims about the placeholder under concurrency, checked under SpecAuth  *)

\* worker w makes the SetPrivilegeCache call of its check in this step
WritesPlaceholder(w) == wk[w].pc = "set" /\ wk'[w] # wk[w]

\* the entry of key is affirmative in cache c
Holds(c, key) == key \in DOMAIN c.pri /\ c.pri[key]

\* C31: under any interleaving of an authorization check with another writer
\* of the privilege cache, the negative placeholder the check writes after a
\* miss never replaces an affirmative entry written for the same key between
\* the check's read and its write: no step in which a check writes its
\* placeholder turns an affirmative entry of the cache into a denial.
C31_PlaceholderKeepsAffirmative ==
    [][\A w \in Workers :
          WritesPlaceholder(w) =>
              \A key \in DOMAIN priCache.pri :
                  Holds(priCache, key) => Holds(priCache', key)]_vars

====
